---- MODULE Spec2Model ----
(***************************************************************************)
(* Model of telegram-gemini-bot: the dispatch of one Telegram update, the  *)
(* prompt assembly, the streamed (or single-shot) generation, the relay of *)
(* the generated text to the chat and the recording of the interaction.    *)
(*                                                                         *)
(* The repository holds several revisions of bot.go / messages.go.  The    *)
(* variable ver names the revision whose code a behaviour follows:         *)
(*   "B1"   src/bot.go 1-1156            (genai iterator, optional stream) *)
(*   "B2"   src/bot.go 1157-1836         (GenerateStreamed, ctx deadline)  *)
(*   "Mold" src/unnamed/part_004 1340-   (GenerateStreamed, returns error) *)
(*   "Mmid" src/unnamed/part_003         (PromptsToContents + callback)    *)
(*   "Mnew" src/unnamed/part_004 1-1339  (GenerateStreamIterated)          *)
(***************************************************************************)
EXTENDS Integers, Sequences, FiniteSets, TLC

(***************************************************************************)
(* Bounds of the model.                                                    *)
(***************************************************************************)
MaxEvents == 2      \* stream events delivered to one answer
MaxParts == 2       \* parts of a single-shot (non-streamed) response

(***************************************************************************)
(* Program constants.                                                      *)
(***************************************************************************)
MaxMessageLength == 4096   \* Telegram's single-message limit
CaptionLength == 128       \* bytes of the text kept as a document caption

Versions == {"B1", "B2", "Mold", "Mmid", "Mnew"}

\* revisions whose answer() returns an error to handleMessages
ReturnsError(v) == v \in {"Mold", "Mmid", "Mnew"}
\* revisions that bound the whole answer by one context deadline
HasAnswerDeadline(v) == v \in {"B1", "B2"}
\* revisions that convert the prompts with PromptsToContents before generating
HasContentsStep(v) == v \in {"Mmid", "Mnew"}
\* revisions whose stream consumer is the GenerateStreamed callback
UsesCallback(v) == v \in {"B2", "Mold", "Mmid"}
\* revisions in which answer() itself reports a failed generation call
AnswerReportsFailure(v) == v \in {"B2", "Mold"}
\* revisions that register the media-group, inline-query and /privacy handlers
HasInlineHandler(v) == v # "B1"

(***************************************************************************)
(* Texts.  A generated text is a sequence of chunks [s, n]: n bytes of the  *)
(* literal s (of the character s when it is a multi-byte one).  An error   *)
(* text is a sequence of characters, so that the redaction is computed     *)
(* character by character.                                                 *)
(***************************************************************************)
Chunk(s, n) == <<[s |-> s, n |-> n]>>

RECURSIVE TextLen(_)
TextLen(t) == IF t = <<>> THEN 0 ELSE Head(t).n + TextLen(Tail(t))

\* bytes of the UTF-8 encoding of one character of the literal s
RuneWidth(s) == IF s = "U+AC00" THEN 3 ELSE 1

\* number of characters of a text, whose TextLen counts bytes
RECURSIVE CharLen(_)
CharLen(t) == IF t = <<>> THEN 0 ELSE (Head(t).n \div RuneWidth(Head(t).s)) + CharLen(Tail(t))

NoText == <<>>
DeltaA == Chunk("a", 1)
DeltaB == Chunk("b", 1)
DeltaBig == Chunk("x", MaxMessageLength)
\* 1366 three-byte characters: 4098 bytes
TextWide == Chunk("U+AC00", 3 * 1366)
Deltas == {DeltaA, DeltaB, DeltaBig}

\* fmt.Sprintf("<<<%s>>>", finishReason)
FinishMarker(reason) == Chunk("<<<" \o reason \o ">>>", 6 + Len(reason))
FinishReasons == {"SAFETY"}

\* secrets of the configuration
TelegramBotToken == <<"T", "1">>
GoogleAIAPIKey == <<"K", "1">>
redactedString == <<"<", "R", ">">>

IsPrefixAt(s, t, i) ==
    /\ i + Len(s) - 1 <= Len(t)
    /\ \A j \in 1..Len(s) : t[i + j - 1] = s[j]

\* strings.Contains(t, s)
Contains(t, s) == \E i \in 1..(Len(t) + 1) : IsPrefixAt(s, t, i)

\* strings.ReplaceAll(t, old, new), scanning from position i
RECURSIVE ReplaceFrom(_, _, _, _)
ReplaceFrom(t, old, new, i) ==
    IF i > Len(t) THEN <<>>
    ELSE IF Len(old) > 0 /\ IsPrefixAt(old, t, i)
         THEN new \o ReplaceFrom(t, old, new, i + Len(old))
         ELSE <<t[i]>> \o ReplaceFrom(t, old, new, i + 1)

ReplaceAll(t, old, new) == ReplaceFrom(t, old, new, 1)

\* conf.GoogleAIAPIKey == nil: the bot runs with a credentials file
NoKey == <<>>

redactsKeyOnly(key, token, err) ==
    IF key # NoKey /\ Contains(err, key) THEN ReplaceAll(err, key, redactedString) ELSE err
\* redactError for a configuration with the given API key and bot token
redactErrorOf(key, token, err) ==
    LET r1 == IF key # NoKey /\ Contains(err, key)
              THEN ReplaceAll(err, key, redactedString) ELSE err
    IN IF Contains(r1, token)
       THEN ReplaceAll(r1, token, redactedString) ELSE r1

redactError(err) == redactErrorOf(GoogleAIAPIKey, TelegramBotToken, err)

HasSecret(t) == Contains(t, TelegramBotToken) \/ Contains(t, GoogleAIAPIKey)

\* errors.Join(errs...): the texts joined by a newline
RECURSIVE Join(_)
Join(errs) ==
    IF errs = <<>> THEN <<>>
    ELSE IF Len(errs) = 1 THEN errs[1]
    ELSE errs[1] \o <<"\n">> \o Join(Tail(errs))

\* error texts of the collaborators
ErrPlatform == <<"p">>                         \* Telegram's description
ErrDownload == <<"d">> \o TelegramBotToken     \* url.Error quoting the file URL
ErrGetFile == <<"f">>
ErrUpload == <<"u">>
ErrContents == <<"c">>
ErrReaction == <<"r">>
ErrUnsupported == <<"n">>
ErrSave == <<"s">>                             \* gorm's error of the failed write
ErrDeadline == <<"t">>                         \* context deadline exceeded

(***************************************************************************)
(* Updates.                                                                *)
(***************************************************************************)
AllowedTelegramUsers == {"alice"}
NoUsername == ""
Usernames == {"alice", "mallory", NoUsername}

Commands == {"/start", "/stats", "/help", "/privacy", "/unknown"}

\* shape: what the message carries ("photo": the sizes of one photo, "media":
\* one file of another kind); reply: what its reply-parent carries
Shapes == {"text", "photo", "media", "none"}
Replies == {"none", "text", "media", "unsupported"}

Update(kind, user, cmd, shape, reply) ==
    [kind |-> kind, user |-> user, cmd |-> cmd, shape |-> shape, reply |-> reply]

NoUpdate == Update("none", NoUsername, "", "none", "none")

MessageUpdates ==
    { Update("message", u, "", s, r) : u \in Usernames, s \in Shapes \ {"photo"}, r \in Replies }
    \cup { Update("message", u, "", "photo", "none") : u \in Usernames }
    \cup { Update("edited", u, "", s, "none") : u \in Usernames, s \in {"text", "none"} }
MediaGroupUpdates ==
    { Update("mediaGroup", u, "", "media", "none") : u \in Usernames }
CommandUpdates ==
    { Update("command", u, c, "text", "none") : u \in Usernames, c \in Commands }
InlineQueryUpdates ==
    { Update("inlineQuery", u, "", "none", "none") : u \in Usernames }
OtherUpdates ==
    { Update("other", u, "", "none", "none") : u \in Usernames }

HasMessage(u) == u.kind \in {"message", "mediaGroup", "command"}
HasEditedMessage(u) == u.kind = "edited"
HasInlineQuery(u) == u.kind = "inlineQuery"

isAllowed(update, allowedUsers) ==
    LET username == IF HasMessage(update) THEN update.user
                    ELSE IF HasEditedMessage(update) THEN update.user
                    ELSE IF HasInlineQuery(update) THEN update.user
                    ELSE NoUsername
    IN username \in allowedUsers

\* the message of the update when it carries text or a supported media
usableMessageFromUpdate(update) ==
    (HasMessage(update) \/ HasEditedMessage(update))
        /\ update.shape \in {"text", "photo", "media"}

(***************************************************************************)
(* Outbound calls.  calls is the log of the calls made to the platform:    *)
(*   op     the API method (downloadFile: the HTTP fetch of a file URL)    *)
(*   ok     the platform's answer                                          *)
(*   mid    the id of the message created, edited or reacted to (0: none)  *)
(*   reply  the id of the message replied to (0: none)                     *)
(*   kind   "content" (generated text), "error" (a failure report),        *)
(*          "info" (a fixed text), "none"                                  *)
(*   label  the fixed part of the text; text: the generated text;          *)
(*   detail the error text formatted into the message                      *)
(***************************************************************************)
\* the id of the inbound message; an earlier message of the chat has the id 1
InboundID == 2

Call(op, ok, mid, reply, kind, label, text, detail) ==
    [op |-> op, ok |-> ok, mid |-> mid, reply |-> reply, kind |-> kind,
     label |-> label, text |-> text, detail |-> detail]

SendOps == {"sendMessage", "sendDocument", "sendPhoto", "sendVoice", "sendVideo"}

\* the id the platform gives to the next message it creates
NextID(cs) == InboundID + 1 + Cardinality({ i \in 1..Len(cs) : cs[i].op \in SendOps /\ cs[i].ok })

ChatAction == Call("sendChatAction", TRUE, 0, 0, "none", "typing", NoText, <<>>)

\* the platform rejects a text longer than its single-message limit
PlatformAccepts(text, ok) == ok /\ CharLen(text) <= MaxMessageLength

\* sendMessage: a chat action, then SendMessage
sendMessage(cs, kind, label, text, detail, reply, ok) ==
    << ChatAction,
       Call("sendMessage", PlatformAccepts(text, ok),
            IF PlatformAccepts(text, ok) THEN NextID(cs) ELSE 0,
            reply, kind, label, text, detail) >>

\* updateMessage: a chat action, then EditMessageText
updateMessage(kind, text, mid, ok) ==
    << ChatAction,
       Call("editMessageText", PlatformAccepts(text, ok), mid, 0, kind, "", text, <<>>) >>

\* sendFile: a chat action, then SendDocument with a caption
sendFile(cs, kind, text, caption, reply, ok) ==
    << ChatAction,
       Call("sendDocument", ok, IF ok THEN NextID(cs) ELSE 0,
            reply, kind, caption, text, <<>>) >>

\* t[:n]: the first n bytes of a text
RECURSIVE Take(_, _)
Take(t, n) ==
    IF n <= 0 \/ t = <<>> THEN <<>>
    ELSE IF Head(t).n <= n THEN <<Head(t)>> \o Take(Tail(t), n - Head(t).n)
    ELSE <<[s |-> Head(t).s, n |-> n]>>

Ellipsis == Chunk("...", 3)

\* strings.ToValidUTF8(t, ""): the bytes of a cut character are dropped
RECURSIVE ToValidUTF8(_)
ToValidUTF8(t) ==
    IF t = <<>> THEN <<>>
    ELSE LET whole == Head(t).n - (Head(t).n % RuneWidth(Head(t).s))
         IN (IF whole = 0 THEN <<>> ELSE <<[s |-> Head(t).s, n |-> whole]>>)
            \o ToValidUTF8(Tail(t))

\* strings.ToValidUTF8(generatedText[:128], "") + "..."
Caption(t) == ToValidUTF8(Take(t, CaptionLength)) \o Ellipsis

SetMessageReactionOnNone(mid, ok) ==
    Call("setMessageReaction", ok, 0, 0, "none", "ok-hand", NoText, <<>>)
\* SetMessageReaction with the emoji of the bot; its failure is left to the caller
SetMessageReaction(mid, ok) ==
    Call("setMessageReaction", ok, mid, 0, "none", "ok-hand", NoText, <<>>)

Last(s) == s[Len(s)]

(***************************************************************************)
(* Prompt building.  A prompt text is a sequence of tokens [k, s]:         *)
(*   "word"  a run of text without a URL                                   *)
(*   "url"   a match of urlRegexp                                          *)
(*   "lit"   a fixed piece of a format string                              *)
(*   "ctype" a Content-Type header value                                   *)
(*   "body"  the text read from the URL s, "doc" the text of its HTML      *)
(*           document, "bytes" the bytes read from it                      *)
(* A substring search for a URL is a search for its token: the URL inside  *)
(* a formatted <link url="..."> is an occurrence like any other.           *)
(***************************************************************************)
MaxTokens == 3

Tok(k, s) == [k |-> k, s |-> s]

Word == Tok("word", "hello")
NL == Tok("lit", "\n")

URLWatch == "https://www.youtube.com/watch"
URLShort == "https://youtu.be/x"
URLArchived == "https://web.archive.org/youtu.be/x"
URLPage == "https://example.com/page"

URLs == {URLWatch, URLShort, URLArchived, URLPage}

\* the pieces of a URL between the slashes, the host first
Segments(url) ==
    IF url = URLWatch THEN <<"www.youtube.com", "watch">>
    ELSE IF url = URLShort THEN <<"youtu.be", "x">>
    ELSE IF url = URLArchived THEN <<"web.archive.org", "youtu.be", "x">>
    ELSE <<"example.com", "page">>

Host(url) == Segments(url)[1]

\* strings.Contains(url, e) for an e that holds no slash
URLContains(url, e) == \E i \in 1..Len(Segments(url)) : Segments(url)[i] = e

Alphabet == {Word} \cup { Tok("url", u) : u \in URLs }

Prompts == UNION { [1..n -> Alphabet] : n \in 0..MaxTokens }

\* re.FindAllString(prompt, -1)
FindAllString(prompt) == SelectSeq(prompt, LAMBDA t : t.k = "url")

URLsIn(prompt) == { prompt[i].s : i \in { j \in 1..Len(prompt) : prompt[j].k = "url" } }

\* strings.Index: the first occurrence, 0 when there is none
Index(text, tok) ==
    IF \E i \in 1..Len(text) : text[i] = tok
    THEN CHOOSE i \in 1..Len(text) : text[i] = tok /\ \A j \in 1..(i - 1) : text[j] # tok
    ELSE 0

\* strings.Replace(text, old, new, 1)
Replace(text, tok, new) ==
    LET i == Index(text, tok)
    IN IF i = 0 THEN text
       ELSE SubSeq(text, 1, i - 1) \o new \o SubSeq(text, i + 1, Len(text))

\* what the server of a URL answers: status 0 when the request itself fails
Response(status, ctype) == [status |-> status, ctype |-> ctype]

Unreachable == Response(0, "")

ContentTypes == {"text/plain", "text/html", "application/json", "image/png", "application/zip"}

Responses ==
    {Unreachable, Response(404, "text/html")}
        \cup { Response(200, ct) : ct \in ContentTypes }

\* the part of a content type before the slash
MajorType(ct) ==
    IF ct \in {"text/plain", "text/html"} THEN "text"
    ELSE IF ct = "image/png" THEN "image"
    ELSE IF ct = "" THEN "" ELSE "application"

supportedHTTPContentType(contentType) ==
    MajorType(contentType) = "text" \/ contentType = "application/json"

supportedFileMimeType(mimeType) ==
    mimeType \in {"image/png", "text/plain", "text/html", "application/json"}

urlToTextFormat(url, contentType, text) ==
    <<Tok("lit", "<link url="), Tok("url", url), Tok("lit", " content-type="),
      Tok("ctype", contentType), Tok("lit", ">"), text, Tok("lit", "</link>")>>

urlReplacedWithFileAttachmentFormat(url, contentType) ==
    <<Tok("lit", "<file fetched-from="), Tok("url", url), Tok("lit", " content-type="),
      Tok("ctype", contentType), Tok("lit", ">replaced with the file fetched from "),
      Tok("url", url), Tok("lit", "</file>")>>

Fetched(content, contentType, err) ==
    [content |-> content, contentType |-> contentType, err |-> err]

fetchURLContent(web, url) ==
    LET resp == web[url]
        contentType == resp.ctype
    IN IF resp.status = 0 THEN Fetched(<<>>, "", TRUE)
       ELSE IF resp.status # 200
       THEN Fetched(urlToTextFormat(url, contentType, Tok("lit", "HTTP Error")),
                    contentType, TRUE)
       ELSE IF supportedHTTPContentType(contentType)
       THEN (IF contentType = "text/html"
             THEN Fetched(urlToTextFormat(url, contentType, Tok("doc", url)),
                          contentType, FALSE)
             ELSE IF MajorType(contentType) = "text"
             THEN Fetched(urlToTextFormat(url, contentType, Tok("body", url)),
                          contentType, FALSE)
             ELSE Fetched(<<>>, contentType, FALSE))
       ELSE IF supportedFileMimeType(contentType)
       THEN Fetched(<<Tok("bytes", url)>>, contentType, FALSE)
       ELSE Fetched(urlToTextFormat(url, contentType, Tok("lit", "not supported")),
                    contentType, TRUE)

Converted(text, files) == [text |-> text, files |-> files]

\* the loop of the fetching convertPromptWithURLs over the URLs found
RECURSIVE replaceURLs(_, _, _)
replaceURLs(web, urls, acc) ==
    IF urls = <<>> THEN acc
    ELSE LET url == Head(urls).s
             f == fetchURLContent(web, url)
         IN replaceURLs(web, Tail(urls),
                IF f.err THEN acc
                ELSE IF supportedHTTPContentType(f.contentType)
                THEN Converted(Replace(acc.text, Tok("url", url), f.content \o <<NL>>),
                               acc.files)
                ELSE IF supportedFileMimeType(f.contentType)
                THEN Converted(Replace(acc.text, Tok("url", url),
                                   urlReplacedWithFileAttachmentFormat(url, f.contentType)),
                               Append(acc.files, f.content))
                ELSE acc)

\* convertPromptWithURLs(conf, prompt) of the revisions that fetch the URLs
convertPromptWithURLsFetched(web, prompt) ==
    replaceURLs(web, FindAllString(prompt), Converted(prompt, <<>>))

isURLFromYoutube(url) ==
    \E e \in {"www.youtube.com", "youtu.be"} : URLContains(url, e)

\* gt.PromptFromText and gt.PromptFromURI
PromptFromText(text) == [kind |-> "text", text |-> text, mime |-> ""]
PromptFromURI(url, mime) == [kind |-> "uri", text |-> <<Tok("url", url)>>, mime |-> mime]

\* the loop of the newest convertPromptWithURLs: strings.Cut at each URL found
RECURSIVE cutURLs(_, _, _)
cutURLs(urls, remaining, converted) ==
    IF urls = <<>>
    THEN (IF Len(remaining) > 0 THEN Append(converted, PromptFromText(remaining))
          ELSE converted)
    ELSE LET url == Head(urls).s
             i == Index(remaining, Tok("url", url))
             before == SubSeq(remaining, 1, i - 1)
             after == SubSeq(remaining, i + 1, Len(remaining))
         IN IF i = 0 THEN cutURLs(Tail(urls), remaining, converted)
            ELSE IF isURLFromYoutube(url)
            THEN cutURLs(Tail(urls), after,
                     (IF Len(before) > 0 THEN Append(converted, PromptFromText(before))
                      ELSE converted) \o <<PromptFromURI(url, "video/mp4")>>)
            ELSE cutURLs(Tail(urls), after,
                     Append(converted, PromptFromText(Append(before, Tok("url", url)))))

convertsURLsOnly(prompt) == cutURLs(FindAllString(prompt), FindAllString(prompt), <<>>)
\* converted = []gt.Prompt{}; remaining := prompt; the loop; the rest of the text
convertPromptWithURLs(prompt) == cutURLs(FindAllString(prompt), prompt, <<>>)

\* a message handed to convertMessage: its text, its caption, its media files
TGMessage(text, caption, media) == [text |-> text, caption |-> caption, media |-> media]

NoMessage == TGMessage("", "", 0)

\* a message has a text, or media with or without a caption, or neither
Messages ==
    {TGMessage("hi", "", 0), NoMessage}
        \cup { TGMessage("", c, m) : c \in {"", "look"}, m \in 1..2 }

defaultPromptForMedias == "Describe provided media(s)."

HasText(m) == m.text # ""
HasCaption(m) == m.caption # ""
HasMedia(m) == m.media > 0

ShapeOfAcceptsEmpty(m) == IF HasText(m) THEN "text" ELSE "media"

\* convertMessage: the branch taken for the message
ShapeOf(m) == IF HasText(m) THEN "text" ELSE IF HasMedia(m) THEN "media" ELSE "none"

\* convertMessage: the text of the chatMessage it returns
chatMessageText(m) ==
    IF HasText(m) THEN m.text
    ELSE IF HasCaption(m) THEN m.caption ELSE defaultPromptForMedias

\* convertMessage: the number of files of the chatMessage it returns
chatMessageFiles(m) == IF HasText(m) THEN 0 ELSE m.media

Input(kind, prompt, message) == [kind |-> kind, prompt |-> prompt, message |-> message]

NoInput == Input("none", <<>>, NoMessage)

NoWeb == [u \in URLs |-> Unreachable]

\* web pages that differ only on the URLs of the prompt
Webs(prompt) == { w \in [URLs -> Responses] : \A u \in URLs \ URLsIn(prompt) : w[u] = Unreachable }

Output(fn, web, text, files, prompts, err) ==
    [fn |-> fn, web |-> web, text |-> text, files |-> files, prompts |-> prompts, err |-> err]

NoOutput == Output("none", NoWeb, <<>>, <<>>, <<>>, <<>>)

(***************************************************************************)
(* pcmToWav.  The arguments are Go ints of 64 bits and the header fields   *)
(* have 32 or 16 bits; an integer is the pair of its digits in base 2^16,  *)
(* hi * 2^16 + lo with 0 <= lo < 2^16 (hi = -1 for the small negatives).   *)
(* ByteRate and BlockAlign, which no other field depends on, are left out. *)
(***************************************************************************)
Base == 65536

Wide(hi, lo) == [hi |-> hi, lo |-> lo]

\* x + n for a small n >= 0
Plus(x, n) == Wide(x.hi + ((x.lo + n) \div Base), (x.lo + n) % Base)

\* uint32(x): the low 32 bits
uint32(x) == Wide(x.hi % Base, x.lo)

\* uint16(x): the low 16 bits
uint16(x) == Wide(0, x.lo)

\* len(pcmBytes)
DataLengths ==
    { Wide(0, 0), Wide(0, 4), Wide(0, Base - 36), Wide(Base - 1, Base - 37),
      Wide(Base - 1, Base - 36), Wide(Base - 1, Base - 1), Wide(Base, 0) }

\* sampleRate: what strconv.Atoi makes of the rate= of the MIME type (24000 as a rule)
SampleRates ==
    { Wide(0, 8000), Wide(0, 24000), Wide(1, 0), Wide(Base - 1, Base - 1), Wide(Base, 24000) }

BitDepths == { Wide(0, 8), Wide(0, 16), Wide(0, Base - 1), Wide(1, 16) }

ChannelCounts == { Wide(0, 1), Wide(0, 2) }

PCM(dataLen, sampleRate, bitDepth, numChannels) ==
    [kind |-> "pcm", len |-> dataLen, sampleRate |-> sampleRate, bitDepth |-> bitDepth,
     numChannels |-> numChannels]

PCMs ==
    { PCM(l, r, d, c) : l \in DataLengths, r \in SampleRates, d \in BitDepths,
                        c \in ChannelCounts }

\* the header pcmToWav writes; binary.Write to a bytes.Buffer does not fail
pcmToWav(pcm) ==
    LET dataLen == uint32(pcm.len)
    IN [fn |-> "pcmToWav",
        ChunkSize |-> uint32(Plus(dataLen, 36)),
        Subchunk1Size |-> Wide(0, 16),
        AudioFormat |-> Wide(0, 1),
        NumChannels |-> uint16(pcm.numChannels),
        SampleRate |-> uint32(pcm.sampleRate),
        BitsPerSample |-> uint16(pcm.bitDepth),
        Subchunk2Size |-> dataLen,
        dataLen |-> pcm.len,
        err |-> <<>>]


(***************************************************************************)
(* State.                                                                  *)
(***************************************************************************)
VARIABLES
    ver,              \* revision of the code
    streamMessages,   \* conf.StreamMessages (B1 only; later revisions always stream)
    pc,               \* position of the handler of the update
    upd,              \* the update being handled
    calls,            \* outbound calls so far
    logs,             \* error texts printed by log.Printf, with their site
    saved,            \* calls of savePromptAndResult: [result, success]
    stored,           \* what became of each call: "stored", "failed", "nodb"
    parent,           \* converted reply-parent: "none", "text", "media"
    errs,             \* answer: errs []error
    firstMessageID,   \* answer: *firstMessageID, 0 for nil
    mergedText,       \* answer: mergedText
    delivered,        \* stream events the provider has delivered to answer
    streamFailed,     \* the stream delivered an error
    retErr,           \* error returned by the generation call, <<>> for nil
    ctxExpired,       \* the deadline of the answer (or of its generation) passed
    parts,            \* B1 single-shot: parts still to relay
    history,          \* answer: the history given to the generation
    uploadFailed,     \* answer: UploadFilesAndWait returned an error
    generated,        \* answer: the generation call was made
    input,            \* prompt builder: the prompt text or the message given to it
    output,           \* prompt builder: what it returned, NoOutput before the call
    answers,          \* answers running side by side: the locals of each of them
    wire,             \* outbound calls of several handlers, in order, each with its origin
    db                \* the interaction records in the database, oldest first

vars == <<ver, streamMessages, pc, upd, calls, logs, saved, stored, parent, errs,
          firstMessageID, mergedText, delivered, streamFailed, retErr, ctxExpired, parts,
          history, uploadFailed, generated, input, output, answers, wire, db>>

\* the state of the answers that run side by side
concVars == <<answers, wire, db>>

answerVars == <<errs, firstMessageID, mergedText, delivered, streamFailed, retErr,
                ctxExpired, parts, history, uploadFailed, generated>>

Log(site, text) == [site |-> site, text |-> text]

Init ==
    /\ ver \in Versions
    /\ streamMessages \in BOOLEAN
    /\ (ver # "B1" => streamMessages)
    /\ pc = "idle"
    /\ upd = NoUpdate
    /\ calls = <<>>
    /\ logs = <<>>
    /\ saved = <<>>
    /\ stored = <<>>
    /\ parent = "none"
    /\ errs = <<>>
    /\ firstMessageID = 0
    /\ mergedText = NoText
    /\ delivered = <<>>
    /\ streamFailed = FALSE
    /\ retErr = <<>>
    /\ ctxExpired = FALSE
    /\ parts = <<>>
    /\ history = <<>>
    /\ uploadFailed = FALSE
    /\ generated = FALSE
    /\ input = NoInput
    /\ output = NoOutput
    /\ answers = <<>>
    /\ wire = <<>>
    /\ db = <<>>

(***************************************************************************)
(* runBot: the handlers registered on the bot.                             *)
(***************************************************************************)

\* bot.SetMessageHandler
MessageHandler ==
    /\ pc = "idle"
    /\ \E u \in MessageUpdates :
        /\ upd' = u
        /\ IF ~isAllowed(u, AllowedTelegramUsers)
           THEN pc' = "done"
           ELSE pc' = "handle"
    /\ UNCHANGED <<concVars, input, output, ver, streamMessages, calls, logs, saved, stored, parent, answerVars>>

\* bot.SetMediaGroupHandler
MediaGroupHandler ==
    /\ pc = "idle"
    /\ HasInlineHandler(ver)
    /\ \E u \in MediaGroupUpdates :
        /\ upd' = u
        /\ IF ~isAllowed(u, AllowedTelegramUsers)
           THEN pc' = "done"
           ELSE pc' = "handle"
    /\ UNCHANGED <<concVars, input, output, ver, streamMessages, calls, logs, saved, stored, parent, answerVars>>

\* bot.SetInlineQueryHandler
InlineQueryHandler ==
    /\ pc = "idle"
    /\ HasInlineHandler(ver)
    /\ \E u \in InlineQueryUpdates, ok \in BOOLEAN :
        /\ upd' = u
        /\ calls' = Append(calls, Call("answerInlineQuery", ok, 0, 0, "info",
                                       "No result", NoText, <<>>))
        /\ logs' = IF ok THEN logs ELSE Append(logs, Log("inlineQuery", ErrPlatform))
    /\ pc' = "done"
    /\ UNCHANGED <<concVars, input, output, ver, streamMessages, saved, stored, parent, answerVars>>

\* startCommandHandler, statsCommandHandler, helpCommandHandler, noSuchCommandHandler
CheckedCommandHandler(cmd, reply) ==
    /\ pc = "idle"
    /\ \E u \in CommandUpdates, ok \in BOOLEAN :
        /\ u.cmd = cmd
        /\ upd' = u
        /\ IF ~isAllowed(u, AllowedTelegramUsers) \/ ~usableMessageFromUpdate(u)
           THEN calls' = calls
           ELSE calls' = calls \o sendMessage(calls, "info", cmd, NoText, <<>>, reply, ok)
    /\ pc' = "done"
    /\ UNCHANGED <<concVars, input, output, ver, streamMessages, logs, saved, stored, parent, answerVars>>

startCommandHandler == CheckedCommandHandler("/start", 0)
statsCommandHandler == CheckedCommandHandler("/stats", InboundID)
helpCommandHandler == CheckedCommandHandler("/help", InboundID)
noSuchCommandHandler == CheckedCommandHandler("/unknown", InboundID)

privacyCommandHandler ==
    /\ pc = "idle"
    /\ HasInlineHandler(ver)
    /\ \E u \in CommandUpdates, ok \in BOOLEAN :
        /\ u.cmd = "/privacy"
        /\ upd' = u
        /\ IF ~usableMessageFromUpdate(u)
           THEN calls' = calls
           ELSE calls' = calls \o sendMessage(calls, "info", "/privacy", NoText, <<>>,
                                              InboundID, ok)
    /\ pc' = "done"
    /\ UNCHANGED <<concVars, input, output, ver, streamMessages, logs, saved, stored, parent, answerVars>>

\* the callback of bot.StartPollingUpdates, for updates no handler took
PollingUpdates ==
    /\ pc = "idle"
    /\ \E u \in OtherUpdates, ok \in BOOLEAN :
        /\ upd' = u
        /\ IF ~isAllowed(u, AllowedTelegramUsers) \/ ~usableMessageFromUpdate(u)
           THEN calls' = calls
           ELSE calls' = calls \o sendMessage(calls, "info", "msgTypeNotSupported",
                                              NoText, <<>>, InboundID, ok)
    /\ pc' = "done"
    /\ UNCHANGED <<concVars, input, output, ver, streamMessages, logs, saved, stored, parent, answerVars>>

(***************************************************************************)
(* handleMessages, first part: the conversion of the update's message and  *)
(* of its reply-parent into chat messages (chatMessagesFromTGMessage,      *)
(* convertMessage, filesFromMessage, readMedia).                           *)
(***************************************************************************)
DownloadOutcomes == {"ok", "getFile", "fetch"}

GetFile(ok) == Call("getFile", ok, 0, 0, "none", "", NoText, <<>>)
DownloadFile(ok) == Call("downloadFile", ok, 0, 0, "none", "", NoText, <<>>)

\* readMedia of one file
readMedia(outcome) ==
    IF outcome = "getFile" THEN <<GetFile(FALSE)>>
    ELSE <<GetFile(TRUE), DownloadFile(outcome = "ok")>>

\* filesFromMessage over n files: the files before the last are read, the
\* last one ends with the given outcome
RECURSIVE filesFromMessage(_, _)
filesFromMessage(n, outcome) ==
    IF n = 0 THEN <<>>
    ELSE IF n = 1 THEN readMedia(outcome)
    ELSE readMedia("ok") \o filesFromMessage(n - 1, outcome)

\* the error readMedia returns: the description of GetFile or the fetch error
readMediaError(outcome) == IF outcome = "getFile" THEN ErrGetFile ELSE ErrDownload

\* number of files the message (with its grouped siblings) carries
NumFiles(u) ==
    IF u.shape = "photo" THEN 2
    ELSE IF u.shape # "media" THEN 0
    ELSE IF u.kind = "mediaGroup" THEN 2 ELSE 1

\* the first revision reads every size of a photo and skips the ones that fail:
\* n reads, the k-th of which ends with the given outcome
RECURSIVE photoBytes(_, _, _)
photoBytes(n, k, outcome) ==
    IF n = 0 THEN <<>>
    ELSE photoBytes(n - 1, k, outcome) \o readMedia(IF n = k THEN outcome ELSE "ok")

convertMessageAcceptsAny(shape, outcome) ==
    IF shape \in {"photo", "media"} /\ outcome # "ok" THEN readMediaError(outcome) ELSE <<>>

\* convertMessage: <<>> when the message converts, else its error
convertMessage(shape, outcome) ==
    IF shape = "text" THEN <<>>
    ELSE IF shape \in {"photo", "media"}
    THEN (IF outcome = "ok" THEN <<>> ELSE readMediaError(outcome))
    ELSE ErrUnsupported

ErrList(e) == IF e = <<>> THEN <<>> ELSE <<e>>

\* the converted reply-parent
ParentOf(u, err) == IF u.reply = "none" \/ err # <<>> THEN "none" ELSE u.reply

ConvertMessages ==
    /\ pc = "handle"
    /\ \E po \in DownloadOutcomes, oo \in DownloadOutcomes, k \in 1..2, ok \in BOOLEAN :
        LET usable == usableMessageFromUpdate(upd)
            pfiles == IF upd.reply = "media" THEN 1 ELSE 0
            ofiles == IF oo = "ok" THEN NumFiles(upd) ELSE k
            perr == IF upd.reply = "none" THEN <<>> ELSE convertMessage(upd.reply, po)
            \* the first revision skips a photo size that fails to download
            skips == ver = "B1" /\ upd.shape = "photo"
            ofetch == convertMessage(upd.shape, oo)
            oerr == IF skips THEN <<>> ELSE ofetch
            convErrs == ErrList(perr) \o ErrList(oerr)
            dl == filesFromMessage(pfiles, po) \o
                  (IF skips THEN photoBytes(NumFiles(upd), k, oo)
                   ELSE filesFromMessage(ofiles, oo))
            cs == calls \o dl
        IN
        /\ (upd.reply # "media" => po = "ok")
        /\ (upd.shape \notin {"photo", "media"} => oo = "ok")
        /\ k <= NumFiles(upd) \/ k = 1
        /\ (oo = "ok" => k = 1)
        /\ IF ~usable
           THEN \* "There was no usable message from update."
                /\ calls' = calls \o sendMessage(calls, "error", "NoUsableMessage",
                                                 NoText, <<>>, InboundID, ok)
                /\ logs' = IF ~ok /\ ver \in {"Mold", "Mmid", "Mnew"}
                           THEN Append(logs, Log("handleMessages:send", redactError(ErrPlatform)))
                           ELSE logs
                /\ parent' = parent
                /\ pc' = "done"
           ELSE IF ver = "B1"
           THEN \* convertMessage logs the failure and drops the message
                /\ logs' = logs \o
                       (IF perr # <<>> /\ upd.reply = "media"
                          THEN <<Log("convertMessage", perr)>> ELSE <<>>) \o
                       (IF ofetch # <<>> /\ upd.shape \in {"photo", "media"}
                          THEN <<Log("convertMessage", ofetch)>> ELSE <<>>)
                /\ parent' = ParentOf(upd, perr)
                /\ IF oerr # <<>> /\ (upd.reply = "none" \/ perr # <<>>)
                   THEN /\ calls' = cs \o sendMessage(cs, "error", "NoUsableChatMessages",
                                                      NoText, <<>>, InboundID, ok)
                        /\ pc' = "done"
                   ELSE /\ ok
                        /\ calls' = cs
                        /\ pc' = "answer"
           ELSE IF convErrs # <<>>
           THEN \* "Failed to get chat messages from telegram message: %s"
                /\ calls' = cs \o sendMessage(cs, "error", "FailedToGetChatMessages",
                                              NoText, redactError(Join(convErrs)),
                                              InboundID, ok)
                /\ logs' = logs \o <<Log("handleMessages:convert", Join(convErrs))>> \o
                       (IF ~ok /\ ver \in {"Mold", "Mmid", "Mnew"}
                          THEN <<Log("handleMessages:send", redactError(ErrPlatform))>>
                          ELSE <<>>)
                /\ parent' = parent
                /\ pc' = "done"
           ELSE /\ ok
                /\ calls' = cs
                /\ logs' = logs
                /\ parent' = ParentOf(upd, perr)
                /\ pc' = "answer"
    /\ UNCHANGED <<concVars, input, output, ver, streamMessages, upd, saved, stored, answerVars>>

(***************************************************************************)
(* answer, first part: the 'received' reaction, the upload of the parent's *)
(* files and the conversion of the prompts.                                *)
(***************************************************************************)
HistoryDroppedOnFailure(p, uploadOk) ==
    IF p = "none" \/ ~uploadOk THEN <<>>
    ELSE <<[role |-> "model", text |-> "parent.text", files |-> IF p = "media" THEN 1 ELSE 0]>>

\* history: one turn of role model with the parent's text and, when the upload
\* succeeded, one reference per uploaded file
HistoryOf(p, uploadOk) ==
    IF p = "none" THEN <<>>
    ELSE <<[role |-> "model", text |-> "parent.text",
            files |-> IF p = "media" /\ uploadOk THEN 1 ELSE 0]>>

leavesNoReaction(cs, ok) == cs
\* answer, its first statement: leave a reaction on the original message for confirmation
leaveReaction(cs, ok) == Append(cs, SetMessageReaction(InboundID, ok))

AnswerStart ==
    /\ pc = "answer"
    /\ \E recvOk \in BOOLEAN, uploadOk \in BOOLEAN, contentsOk \in BOOLEAN :
        /\ (parent # "media" \/ ver = "B1" => uploadOk)
        /\ (~HasContentsStep(ver) => contentsOk)
        /\ calls' = leaveReaction(calls, recvOk)
        /\ errs' = (IF ~uploadOk /\ ReturnsError(ver) THEN <<ErrUpload>> ELSE <<>>) \o
                   (IF ~contentsOk THEN <<ErrContents>> ELSE <<>>)
        /\ history' = IF ver = "B1" THEN <<>> ELSE HistoryOf(parent, uploadOk)
        /\ uploadFailed' = ~uploadOk
        /\ generated' = contentsOk
        /\ pc' = IF ~contentsOk THEN "return"
                 ELSE IF ver = "B1" /\ ~streamMessages THEN "generate"
                 ELSE "stream"
    /\ UNCHANGED <<concVars, input, output, ver, streamMessages, upd, logs, saved, stored, parent, firstMessageID,
                   mergedText, delivered, streamFailed, retErr, ctxExpired, parts>>

(***************************************************************************)
(* answer, the stream.  One stream event is                                *)
(*   [type |-> "delta", text, fr]  a text delta; fr: the event also        *)
(*                                 carries a finish reason other than STOP *)
(*   [type |-> "finish", reason]   a finish reason other than STOP, alone  *)
(*   [type |-> "empty"]            neither text nor such a finish reason   *)
(*   [type |-> "error", err]       the stream failed                       *)
(***************************************************************************)
GenerationError == <<"g">> \o GoogleAIAPIKey

StreamErrors == {GenerationError, ErrDeadline}

Events ==
    { [type |-> "delta", text |-> d, fr |-> FALSE, reason |-> "STOP", err |-> <<>>] :
        d \in Deltas }
    \cup { [type |-> "delta", text |-> DeltaA, fr |-> TRUE, reason |-> r, err |-> <<>>] :
             r \in FinishReasons }
    \cup { [type |-> "finish", text |-> NoText, fr |-> TRUE, reason |-> r, err |-> <<>>] :
             r \in FinishReasons }
    \cup { [type |-> "empty", text |-> NoText, fr |-> FALSE, reason |-> "STOP", err |-> <<>>] }
    \cup { [type |-> "error", text |-> NoText, fr |-> FALSE, reason |-> "STOP", err |-> e] :
             e \in StreamErrors }

\* the locals of answer that a relay action reads and writes
RelayState(cs, lg, es, first, merged) ==
    [calls |-> cs, logs |-> lg, errs |-> es, first |-> first, merged |-> merged]

\* what answer does with a failed send or edit of stream content
RelayFailure(st, v) ==
    IF ReturnsError(v) THEN [st EXCEPT !.errs = Append(@, ErrPlatform)]
    ELSE IF v = "B2" THEN [st EXCEPT !.logs = Append(@, Log("answer:relay", redactError(ErrPlatform)))]
    ELSE [st EXCEPT !.logs = Append(@, Log("answer:relay", ErrPlatform))]

\* the first message carries the piece just generated
FirstSend(st, piece, ok) == sendMessage(st.calls, "content", "", piece, <<>>, InboundID, ok)

EditSendsPiece(st, piece, ok) == updateMessage("content", piece, st.first, ok)

\* every later one edits the first message to the merged text
EditMerged(st, piece, ok) == updateMessage("content", st.merged \o piece, st.first, ok)

RelayCallsOrFile(st, piece, ok) ==
    IF TextLen(st.merged \o piece) > MaxMessageLength
    THEN sendFile(st.calls, "content", st.merged \o piece, Caption(st.merged \o piece),
                  InboundID, ok)
    ELSE IF st.first = 0 THEN FirstSend(st, piece, ok) ELSE EditMerged(st, piece, ok)

\* if firstMessageID == nil { sendMessage(generatedText) } else { updateMessage(mergedText) }
RelayCalls(st, piece, ok) ==
    IF st.first = 0 THEN FirstSend(st, piece, ok) ELSE EditMerged(st, piece, ok)

RelayForgetsFirst(st, v, piece, ok) ==
    LET cs == RelayCalls(st, piece, ok)
        st1 == [st EXCEPT !.calls = @ \o cs, !.merged = @ \o piece]
    IN IF Last(cs).ok THEN st1 ELSE RelayFailure(st1, v)
\* mergedText += piece, then send the first message or update it
Relay(st, v, piece, ok) ==
    LET cs == RelayCalls(st, piece, ok)
        done == Last(cs).ok
        st1 == [st EXCEPT !.calls = @ \o cs,
                          !.merged = @ \o piece,
                          !.first = IF st.first = 0 /\ done THEN Last(cs).mid ELSE @]
    IN IF done THEN st1 ELSE RelayFailure(st1, v)

\* the callback of GenerateStreamed (B2, Mold, Mmid)
Callback(st, v, e, ok1, ok2) ==
    LET st1 == IF e.fr THEN Relay(st, v, FinishMarker(e.reason), ok1) ELSE st
    IN IF e.type = "delta" THEN Relay(st1, v, e.text, ok2)
       ELSE IF e.type = "error"
       THEN LET cs == sendMessage(st1.calls, "error",
                                  IF v = "B2" THEN "FailedToIterateStream" ELSE "StreamError",
                                  NoText, redactError(e.err), 0, ok2)
                st2 == [st1 EXCEPT !.calls = @ \o cs]
            IN IF v = "B2"
               THEN [st2 EXCEPT !.logs = Append(@, Log("answer:stream", redactError(e.err)))]
               ELSE [st2 EXCEPT !.errs = Append(@, e.err) \o
                                         (IF Last(cs).ok THEN <<>> ELSE <<ErrPlatform>>)]
       ELSE st1

\* the body of the loop over GenerateStreamIterated (Mnew)
Iterated(st, v, e, ok1, ok2) ==
    IF e.type = "error" THEN [st EXCEPT !.errs = Append(@, e.err)]
    ELSE IF e.type = "delta" THEN Relay(st, v, e.text, ok2)
    ELSE IF e.type = "finish" THEN Relay(st, v, FinishMarker(e.reason), ok1)
    ELSE st

\* the body of the loop over iter.Next (B1, conf.StreamMessages)
IterNext(st, v, e, ok1, ok2) ==
    IF e.type = "error" THEN [st EXCEPT !.logs = Append(@, Log("answer:stream", e.err))]
    ELSE IF e.type = "delta" THEN Relay(st, v, e.text, ok2)
    ELSE st

Consume(st, v, e, ok1, ok2) ==
    IF UsesCallback(v) THEN Callback(st, v, e, ok1, ok2)
    ELSE IF v = "Mnew" THEN Iterated(st, v, e, ok1, ok2)
    ELSE IterNext(st, v, e, ok1, ok2)

\* the platform answers needed by the event: ok1 for the finish marker, ok2
\* for the text delta or the error report
UsesOk1(v, e) == (UsesCallback(v) /\ e.fr) \/ (v = "Mnew" /\ e.type = "finish")
UsesOk2(v, e) == e.type = "delta" \/ (UsesCallback(v) /\ e.type = "error")

StreamEvent ==
    /\ pc = "stream"
    /\ Len(delivered) < MaxEvents
    /\ ~streamFailed
    /\ \E e \in Events, ok1 \in BOOLEAN, ok2 \in BOOLEAN :
        LET st == Consume(RelayState(calls, logs, errs, firstMessageID, mergedText),
                          ver, e, ok1, ok2)
        IN
        /\ (~UsesOk1(ver, e) => ok1)
        /\ (~UsesOk2(ver, e) => ok2)
        /\ calls' = st.calls
        /\ logs' = st.logs
        /\ errs' = st.errs
        /\ firstMessageID' = st.first
        /\ mergedText' = st.merged
        /\ delivered' = Append(delivered, e)
        /\ streamFailed' = (e.type = "error")
        /\ ctxExpired' = (e.type = "error" /\ e.err = ErrDeadline)
    /\ UNCHANGED <<concVars, input, output, ver, streamMessages, pc, upd, saved, stored, parent, retErr, parts,
                   history, uploadFailed, generated>>

\* the generation call returns: nil, or (GenerateStreamed only) an error
StreamEnd ==
    /\ pc = "stream"
    /\ \E ret \in {<<>>} \cup StreamErrors, ok \in BOOLEAN :
        LET cs == sendMessage(calls, "error", "GenerationFailed", NoText,
                              redactError(ret), 0, ok)
        IN
        /\ (~UsesCallback(ver) => ret = <<>>)
        /\ (ret = ErrDeadline => (~streamFailed \/ ctxExpired))
        /\ (ret = GenerationError => ~ctxExpired)
        /\ (ret = <<>> \/ ~AnswerReportsFailure(ver) => ok)
        /\ retErr' = ret
        /\ ctxExpired' = (ctxExpired \/ ret = ErrDeadline)
        /\ IF ret = <<>>
           THEN /\ calls' = calls
                /\ errs' = errs
                /\ logs' = logs
           ELSE IF ver = "B2"
           THEN /\ calls' = calls \o cs
                /\ errs' = errs
                /\ logs' = Append(logs, Log("answer:generate", redactError(ret)))
           ELSE IF ver = "Mold"
           THEN /\ calls' = calls \o cs
                /\ errs' = Append(errs, ret) \o (IF Last(cs).ok THEN <<>> ELSE <<ErrPlatform>>)
                /\ logs' = logs
           ELSE /\ calls' = calls
                /\ errs' = Append(errs, ret)
                /\ logs' = logs
    /\ pc' = "finish"
    /\ UNCHANGED <<concVars, input, output, ver, streamMessages, upd, saved, stored, parent, firstMessageID, mergedText,
                   delivered, streamFailed, parts,
                   history, uploadFailed, generated>>

(***************************************************************************)
(* answer, last part: the 'done' reaction and the interaction record.      *)
(***************************************************************************)
Record(rkind, text, detail, success) ==
    [rkind |-> rkind, text |-> text, detail |-> detail, success |-> success]

\* the deadline of handleMessage(s) passes after the generation has ended
DeadlineExpires ==
    /\ pc = "finish"
    /\ HasAnswerDeadline(ver)
    /\ ~ctxExpired
    /\ ctxExpired' = TRUE
    /\ UNCHANGED <<concVars, input, output, ver, streamMessages, pc, upd, calls, logs, saved, stored, parent, errs,
                   firstMessageID, mergedText, delivered, streamFailed, retErr, parts,
                   history, uploadFailed, generated>>

NeverSuccessful(first) == FALSE

\* revisions for which the failures of the database are explored; the other
\* revisions call the same savePromptAndResult at the same place
ExploresSaveFailures(v) == v \in {"Mmid", "Mnew"}

\* what may become of a call of savePromptAndResult: the database is configured
\* or not for the whole run, and a write to a configured database may fail
SaveOutcomes(v, st) ==
    IF ~ExploresSaveFailures(v) THEN {"stored"}
    ELSE IF st = <<>> THEN {"stored", "failed", "nodb"}
    ELSE IF st[1] = "nodb" THEN {"nodb"} ELSE {"stored", "failed"}

\* savePromptAndResult: the lines it logs
savePromptAndResult(outcome) ==
    IF outcome = "failed" THEN <<Log("savePromptAndResult", ErrSave)>> ELSE <<>>

savePromptAndResultFails(outcome) == IF outcome = "failed" THEN <<ErrSave>> ELSE <<>>

\* savePromptAndResult has no result: nothing reaches the errs of answer
savePromptAndResultReturns(outcome) == <<>>

AlwaysSuccessful(first) == TRUE
\* successful := (func() bool { if firstMessageID != nil { ...; return true }; return false })()
Successful(first) == first # 0

AnswerFinish ==
    /\ pc = "finish"
    /\ \E ok \in BOOLEAN, outcome \in SaveOutcomes(ver, stored) :
        LET successful == Successful(firstMessageID)
        IN
        /\ (firstMessageID = 0 => ok)
        /\ calls' = IF firstMessageID # 0
                    THEN Append(calls, SetMessageReaction(firstMessageID, ok))
                    ELSE calls
        /\ errs' = (IF firstMessageID # 0 /\ ~ok /\ ReturnsError(ver)
                    THEN Append(errs, ErrReaction) ELSE errs)
                       \o savePromptAndResultReturns(outcome)
        /\ saved' = Append(saved, Record("text", mergedText, <<>>, successful))
        /\ stored' = Append(stored, outcome)
        /\ logs' = logs \o savePromptAndResult(outcome)
    /\ pc' = "return"
    /\ UNCHANGED <<concVars, input, output, ver, streamMessages, upd, parent, firstMessageID, mergedText,
                   delivered, streamFailed, retErr, ctxExpired, parts,
                   history, uploadFailed, generated>>

(***************************************************************************)
(* handleMessages, last part: what it does after answer has returned.      *)
(***************************************************************************)
HandleMessagesEnd ==
    /\ pc = "return"
    /\ \E ok \in BOOLEAN :
        LET failed == IF ReturnsError(ver) THEN errs # <<>> ELSE ctxExpired
            e == IF ReturnsError(ver) THEN Join(errs) ELSE ErrDeadline
            \* Mold formats the (nil) conversion error instead of answer's
            detail == IF ver = "Mold" THEN <<>>
                      ELSE IF ver = "B1" THEN e
                      ELSE redactError(e)
            label == IF ReturnsError(ver) THEN "FailedToAnswerMessage" ELSE "FailedToAnswerInTime"
            cs == sendMessage(calls, "error", label, NoText, detail, InboundID, ok)
        IN
        /\ (~failed => ok)
        /\ calls' = IF failed THEN calls \o cs ELSE calls
        /\ logs' = IF ~failed \/ ver = "B1" THEN logs
                   ELSE logs \o <<Log("handleMessages:answer", redactError(e))>> \o
                        (IF ~ok /\ ReturnsError(ver)
                           THEN <<Log("handleMessages:send", redactError(ErrPlatform))>>
                           ELSE <<>>)
    /\ pc' = "done"
    /\ UNCHANGED <<concVars, input, output, ver, streamMessages, upd, saved, stored, parent, answerVars>>

(***************************************************************************)
(* answer of B1 without conf.StreamMessages: one GenerateContent call,     *)
(* then one send and one record per part of the first candidate.           *)
(***************************************************************************)
TextPart(t) == [type |-> "text", text |-> t]
BlobPart == [type |-> "blob", text |-> NoText]
OtherPart == [type |-> "other", text |-> NoText]
PartKinds == {TextPart(DeltaA), TextPart(DeltaBig \o DeltaA), TextPart(TextWide),
              BlobPart, OtherPart}

NoResponseText == Chunk("There was no response from Gemini API.", 38)
NoPartText == Chunk("There was no part in the generated candidate's content.", 55)

PartSeqs == UNION { [1..n -> PartKinds] : n \in 0..MaxParts }

GenerateContent ==
    /\ pc = "generate"
    /\ \E failed \in BOOLEAN, candidates \in BOOLEAN, ps \in PartSeqs, ok \in BOOLEAN,
          outcome \in SaveOutcomes(ver, stored) :
        /\ (failed => ~candidates /\ ps = <<>>)
        /\ (~candidates => ps = <<>>)
        /\ (~failed => ok)
        /\ IF failed
           THEN \* "Failed to generate an answer from Gemini: %s", unredacted
                /\ logs' = Append(logs, Log("answer:generate", GenerationError))
                               \o savePromptAndResult(outcome)
                /\ calls' = calls \o sendMessage(calls, "error", "FailedToGenerate", NoText,
                                                 GenerationError, InboundID, ok)
                /\ saved' = Append(saved, Record("error", NoText, GenerationError, FALSE))
                /\ stored' = Append(stored, outcome)
                /\ retErr' = GenerationError
                /\ parts' = <<>>
                /\ pc' = "return"
           ELSE /\ logs' = logs
                /\ calls' = calls
                /\ saved' = saved
                /\ stored' = stored
                /\ retErr' = <<>>
                /\ parts' = IF ~candidates THEN <<TextPart(NoResponseText)>>
                            ELSE IF ps = <<>> THEN <<TextPart(NoPartText)>>
                            ELSE ps
                /\ pc' = "parts"
    /\ UNCHANGED <<concVars, input, output, ver, streamMessages, upd, parent, errs, firstMessageID, mergedText,
                   delivered, streamFailed, ctxExpired,
                   history, uploadFailed, generated>>

\* the body of the loop over the parts
SendPart ==
    /\ pc = "parts"
    /\ parts # <<>>
    /\ \E ok \in BOOLEAN, ok2 \in BOOLEAN, okr \in BOOLEAN,
          outcome \in SaveOutcomes(ver, stored) :
        LET part == Head(parts)
            asFile == part.type = "blob" \/ TextLen(part.text) > MaxMessageLength
            cs == IF part.type = "blob"
                  THEN sendFile(calls, "content", NoText, Chunk("blob caption", 12), InboundID, ok)
                  ELSE IF asFile
                  THEN sendFile(calls, "content", part.text, Caption(part.text), InboundID, ok)
                  ELSE sendMessage(calls, "content", "", part.text, <<>>, InboundID, ok)
            sent == Last(cs).ok
            cs1 == calls \o cs
        IN
        /\ (part.type = "other" => ok /\ ok2 /\ okr)
        /\ (sent => ok2)
        /\ (~sent => okr)
        /\ (ok # sent => ok)
        /\ IF part.type = "other"
           THEN /\ calls' = calls
                /\ logs' = logs
                /\ saved' = saved
                /\ stored' = stored
           ELSE IF sent
           THEN /\ calls' = Append(cs1, SetMessageReaction(Last(cs).mid, okr))
                /\ logs' = logs \o savePromptAndResult(outcome)
                /\ saved' = Append(saved, Record("text", part.text, <<>>, TRUE))
                /\ stored' = Append(stored, outcome)
           ELSE /\ calls' = cs1 \o sendMessage(cs1, "error",
                                IF asFile THEN "FailedToSendAsFile" ELSE "FailedToSendAsText",
                                NoText, <<>>, InboundID, ok2)
                /\ logs' = Append(logs, Log("answer:send", ErrPlatform))
                               \o savePromptAndResult(outcome)
                /\ saved' = Append(saved, Record("error", NoText, ErrPlatform, FALSE))
                /\ stored' = Append(stored, outcome)
    /\ parts' = Tail(parts)
    /\ UNCHANGED <<concVars, input, output, ver, streamMessages, pc, upd, parent, errs, firstMessageID, mergedText,
                   delivered, streamFailed, retErr, ctxExpired,
                   history, uploadFailed, generated>>

PartsDone ==
    /\ pc = "parts"
    /\ parts = <<>>
    /\ pc' = "return"
    /\ UNCHANGED <<concVars, input, output, ver, streamMessages, upd, calls, logs, saved, stored, parent, answerVars>>

(***************************************************************************)
(* answerWithImage, answerWithVoice, answerWithVideo: the answers of the   *)
(* /image, /speech and /video commands.  Each of them runs from its first  *)
(* statement to its return in one step.  parts holds what the generation   *)
(* returned, the parts of the candidates in their order:                   *)
(*   [kind |-> "image"]      inline data sniffed as image/...              *)
(*   [kind |-> "blob"]       inline data of another type                   *)
(*   [kind |-> "pcm"]        inline audio with codec=pcm and a rate;       *)
(*                           wav, ogg: the outcome of the two conversions  *)
(*   [kind |-> "codec"]      inline audio with another codec or no rate    *)
(*   [kind |-> "text"]       a text part                                   *)
(*   [kind |-> "blocked"]    a candidate without content whose finish      *)
(*                           reason is not STOP                            *)
(*   [kind |-> "video"]      a generated video with its bytes              *)
(*   [kind |-> "uri"]        a generated video given by its URI only       *)
(*   [kind |-> "novideo"]    a generated video with neither                *)
(* sent is the platform's answer to the send the part leads to.            *)
(***************************************************************************)
GenCommands == {"/image", "/speech", "/video"}

ErrSendPhoto == <<"i">>
ErrNonImage == <<"j">>
ErrUnsupportedPart == <<"v">>
ErrSendVideo == <<"w">>
ErrSendError == <<"e">>

MediaPart(kind, wav, ogg, sent) == [kind |-> kind, wav |-> wav, ogg |-> ogg, sent |-> sent]

ImageParts ==
    { MediaPart(k, TRUE, TRUE, s) : k \in {"image", "blocked"}, s \in BOOLEAN }
        \cup { MediaPart(k, TRUE, TRUE, TRUE) : k \in {"blob", "text"} }

VoiceParts ==
    { MediaPart("pcm", FALSE, TRUE, TRUE), MediaPart("pcm", TRUE, FALSE, TRUE),
      MediaPart("pcm", TRUE, TRUE, FALSE), MediaPart("pcm", TRUE, TRUE, TRUE),
      MediaPart("codec", TRUE, TRUE, TRUE), MediaPart("text", TRUE, TRUE, TRUE) }
        \cup { MediaPart("blocked", TRUE, TRUE, s) : s \in BOOLEAN }

VideoParts ==
    { MediaPart(k, TRUE, TRUE, s) : k \in {"video", "novideo"}, s \in BOOLEAN }
        \cup { MediaPart("uri", TRUE, TRUE, TRUE) }

SeqsOf(S) == UNION { [1..n -> S] : n \in 0..MaxParts }

\* sendPhoto, sendVoice, sendVideo: a chat action, then the send of the data
sendArtifact(cs, op, data, reply, ok) ==
    << ChatAction,
       Call(op, ok, IF ok THEN NextID(cs) ELSE 0, reply, "content", data, NoText, <<>>) >>

\* the data pcmToWav returns for the part, "" when it fails
WavOf(part) == IF part.wav THEN "wav" ELSE ""

wavToOGGOrRaw(part, wavBytes) == IF part.ogg THEN "ogg" ELSE "pcm"
\* wavToOGG: the data ffmpeg returns, "" when it fails
wavToOGG(part, wavBytes) == IF part.ogg THEN "ogg" ELSE ""

\* the locals of a media answer while it walks the parts
MediaState(cs, lg, es, successful, gen, stop, text) ==
    [calls |-> cs, logs |-> lg, errs |-> es, successful |-> successful,
     generated |-> gen, stop |-> stop, text |-> text]

\* an error message; its failure is added to errs
ErrorMessage(st, label, detail, ok) ==
    [st EXCEPT !.calls = st.calls \o sendMessage(st.calls, "error", label, NoText, detail,
                                                 InboundID, ok),
               !.errs = IF ok THEN st.errs ELSE Append(st.errs, ErrSendError)]

\* answerWithImage: the body of the loops over the candidates and their parts
ImagePart(st, part) ==
    IF part.kind = "image"
    THEN LET cs == sendArtifact(st.calls, "sendPhoto", "image", InboundID, part.sent)
         IN IF part.sent
            THEN [st EXCEPT !.calls = st.calls \o cs, !.generated = TRUE,
                            !.successful = TRUE, !.stop = TRUE]
            ELSE [st EXCEPT !.calls = st.calls \o cs, !.generated = TRUE,
                            !.errs = Append(st.errs, ErrSendPhoto)]
    ELSE IF part.kind = "blob" THEN [st EXCEPT !.errs = Append(st.errs, ErrNonImage)]
    ELSE IF part.kind = "text" THEN [st EXCEPT !.text = TRUE]
    ELSE ErrorMessage(st, "ImageFailedWithFinishReason", <<>>, part.sent)

\* answerWithVoice: a part whose conversion to .wav or to .ogg failed
ConversionFailed(st, part) ==
    [st EXCEPT !.logs = Append(st.logs, Log("answerWithVoice:convert", <<>>))]

\* answerWithVoice: the body of the loops over the candidates and their parts
VoicePart(st, part) ==
    IF part.kind = "pcm"
    THEN LET wavBytes == WavOf(part)
             oggBytes == wavToOGG(part, wavBytes)
             cs == sendArtifact(st.calls, "sendVoice", oggBytes, InboundID, part.sent)
         IN IF wavBytes = "" \/ oggBytes = "" THEN ConversionFailed(st, part)
            ELSE IF part.sent
            THEN [st EXCEPT !.calls = st.calls \o cs, !.successful = TRUE, !.stop = TRUE]
            ELSE [st EXCEPT !.calls = st.calls \o cs,
                            !.logs = Append(st.logs, Log("answerWithVoice:send", ErrPlatform))]
    ELSE IF part.kind = "codec"
    THEN [st EXCEPT !.errs = Append(st.errs, ErrUnsupportedPart), !.stop = TRUE]
    ELSE IF part.kind = "text" THEN st
    ELSE ErrorMessage(st, "SpeechFailedWithFinishReason", <<>>, part.sent)

\* answerWithVideo: a video was sent
VideoSent(st) == [st EXCEPT !.successful = TRUE]

\* answerWithVideo: the body of the loop over the generated videos
VideoPart(st, part) ==
    IF part.kind = "video"
    THEN LET cs == sendArtifact(st.calls, "sendVideo", "video", InboundID, part.sent)
             st1 == [st EXCEPT !.calls = st.calls \o cs, !.generated = TRUE]
         IN IF part.sent THEN VideoSent(st1)
            ELSE [st1 EXCEPT !.errs = Append(st.errs, ErrSendVideo)]
    ELSE IF part.kind = "uri" THEN [st EXCEPT !.generated = TRUE]
    ELSE ErrorMessage([st EXCEPT !.generated = FALSE], "NoVideoContent", <<>>, part.sent)

MediaStep(cmd, st, part) ==
    IF st.stop THEN st
    ELSE IF cmd = "/image" THEN ImagePart(st, part)
    ELSE IF cmd = "/speech" THEN VoicePart(st, part)
    ELSE VideoPart(st, part)

RECURSIVE MediaLoop(_, _, _)
MediaLoop(cmd, st, ps) ==
    IF ps = <<>> THEN st ELSE MediaLoop(cmd, MediaStep(cmd, st, Head(ps)), Tail(ps))

\* the message sent when the loop has ended with nothing sent
NothingSent(cmd, st, ok) ==
    IF st.successful THEN st
    ELSE IF cmd = "/speech" THEN ErrorMessage(st, "NoSpeech", <<>>, ok)
    ELSE IF st.generated
    THEN ErrorMessage(st, IF cmd = "/image" THEN "ImageSendFailed" ELSE "VideoSendFailed",
                      <<>>, ok)
    ELSE IF cmd = "/image"
    THEN ErrorMessage(st, IF st.text THEN "ImageFailedWithText" ELSE "NoImage", <<>>, ok)
    ELSE ErrorMessage(st, "NoVideo", <<>>, ok)

MediaPartsOf(cmd) ==
    IF cmd = "/image" THEN SeqsOf(ImageParts)
    ELSE IF cmd = "/speech" THEN SeqsOf(VoiceParts)
    ELSE SeqsOf(VideoParts)

\* the revisions that have the command
HasGenCommand(v, cmd) == IF cmd = "/video" THEN v = "Mnew" ELSE HasContentsStep(v)

AnswerWithMedia(cmd) ==
    /\ pc = "idle"
    /\ HasGenCommand(ver, cmd)
    /\ \E p \in {"none", "text", "media"}, recvOk \in BOOLEAN, uploadOk \in BOOLEAN,
          contentsOk \in BOOLEAN, failed \in BOOLEAN, ps \in MediaPartsOf(cmd),
          ok \in BOOLEAN, outcome \in SaveOutcomes(ver, stored) :
        LET st0 == MediaState(<<SetMessageReaction(InboundID, recvOk)>>, <<>>,
                              IF uploadOk THEN <<>> ELSE <<ErrUpload>>,
                              FALSE, FALSE, FALSE, FALSE)
            st1 == MediaLoop(cmd, st0, ps)
            st2 == NothingSent(cmd, st1, ok)
            stF == ErrorMessage([st0 EXCEPT !.errs = Append(st0.errs, GenerationError)],
                                "GenerationFailed", redactError(GenerationError), ok)
            st == IF ~contentsOk THEN [st0 EXCEPT !.errs = Append(st0.errs, ErrContents)]
                  ELSE IF failed THEN stF ELSE st2
        IN
        /\ (p # "media" => uploadOk)
        /\ (~contentsOk \/ failed => ps = <<>>)
        /\ (~contentsOk => ~failed)
        /\ (~contentsOk \/ (~failed /\ st1.successful) => ok)
        /\ (~contentsOk => outcome = "stored")
        /\ upd' = Update("command", "alice", cmd, "text", p)
        /\ parent' = p
        /\ history' = HistoryOf(p, uploadOk)
        /\ uploadFailed' = ~uploadOk
        /\ generated' = contentsOk
        /\ retErr' = IF contentsOk /\ failed THEN GenerationError ELSE <<>>
        /\ parts' = ps
        /\ calls' = st.calls
        /\ logs' = st.logs \o (IF contentsOk THEN savePromptAndResult(outcome) ELSE <<>>)
        /\ errs' = st.errs
        /\ saved' = IF contentsOk
                    THEN <<Record("media", NoText, <<>>, st.successful)>>
                    ELSE <<>>
        /\ stored' = IF contentsOk THEN <<outcome>> ELSE <<>>
    /\ pc' = "answered"
    /\ UNCHANGED <<concVars, input, output, ver, streamMessages, firstMessageID, mergedText, delivered,
                   streamFailed, ctxExpired>>

answerWithImage == AnswerWithMedia("/image")
answerWithVoice == AnswerWithMedia("/speech")
answerWithVideo == AnswerWithMedia("/video")

Next ==
    \/ MessageHandler
    \/ MediaGroupHandler
    \/ InlineQueryHandler
    \/ startCommandHandler
    \/ statsCommandHandler
    \/ helpCommandHandler
    \/ noSuchCommandHandler
    \/ privacyCommandHandler
    \/ PollingUpdates
    \/ ConvertMessages
    \/ AnswerStart
    \/ StreamEvent
    \/ StreamEnd
    \/ DeadlineExpires
    \/ AnswerFinish
    \/ HandleMessagesEnd
    \/ GenerateContent
    \/ SendPart
    \/ PartsDone
    \/ answerWithImage
    \/ answerWithVoice
    \/ answerWithVideo

Spec == Init /\ [][Next]_vars

(***************************************************************************)
(* The prompt builders applied to a prompt text or to a message.           *)
(***************************************************************************)
Idle ==
    /\ pc = "idle"
    /\ upd = NoUpdate
    /\ calls = <<>>
    /\ logs = <<>>
    /\ saved = <<>>
    /\ stored = <<>>
    /\ parent = "none"
    /\ errs = <<>>
    /\ firstMessageID = 0
    /\ mergedText = NoText
    /\ delivered = <<>>
    /\ streamFailed = FALSE
    /\ retErr = <<>>
    /\ ctxExpired = FALSE
    /\ parts = <<>>
    /\ history = <<>>
    /\ uploadFailed = FALSE
    /\ generated = FALSE

\* no answers running side by side
ConcIdle ==
    /\ answers = <<>>
    /\ wire = <<>>
    /\ db = <<>>

\* values of "allowed_telegram_users": the configuration is not validated, so an entry
\* may be the empty string
AllowLists == {<<>>, <<"alice">>, <<"alice", "mallory">>, <<"alice", "">>}

\* runBot: allowedUsers[user] = true for every user of conf.AllowedTelegramUsers
allowedUsersOf(list) == { list[i] : i \in DOMAIN list }

\* the strings of 1..n characters
Strings(alphabet, n) == UNION { [1..k -> alphabet] : k \in 1..n }

MaxSecretLen == 2
MaxErrorLen == 3

\* characters of secrets: two that the redaction marker does not have, and one it has
SecretAlphabet == {"K", "T", "R"}
Secrets == Strings(SecretAlphabet, MaxSecretLen)

\* an error text under a configuration of an API key (or none) and a bot token
Redactions ==
    { [kind |-> "error", err |-> e, key |-> k, token |-> t] :
        e \in {<<>>} \cup Strings(SecretAlphabet, MaxErrorLen),
        k \in {NoKey} \cup Secrets, t \in Secrets }

\* an update of each kind from each sender, under each allow-list
Admissions ==
    { [kind |-> "update", update |-> Update(k, u, "", "none", "none"), allowed |-> l] :
        k \in {"message", "edited", "inlineQuery", "other"}, u \in Usernames, l \in AllowLists }

PromptInit ==
    /\ ver = "Mnew"
    /\ streamMessages = TRUE
    /\ Idle
    /\ ConcIdle
    /\ input \in { Input("prompt", p, NoMessage) : p \in Prompts }
                  \cup { Input("message", <<>>, m) : m \in Messages }
                  \cup PCMs
                  \cup Admissions
                  \cup Redactions
    /\ output = NoOutput

handlerVars ==
    <<ver, streamMessages, pc, upd, calls, logs, saved, stored, parent, answerVars, concVars>>

\* answer, conf.ReplaceHTTPURLsInPrompt: convertPromptWithURLs(conf, promptText)
FetchURLs ==
    /\ input.kind = "prompt"
    /\ output = NoOutput
    /\ \E web \in Webs(input.prompt) :
        LET c == convertPromptWithURLsFetched(web, input.prompt)
        IN output' = Output("fetch", web, c.text, c.files, <<>>, <<>>)
    /\ UNCHANGED <<input, handlerVars>>

\* answer: convertPromptWithURLs(original.text)
ConvertURLs ==
    /\ input.kind = "prompt"
    /\ output = NoOutput
    /\ output' = Output("convert", NoWeb, <<>>, <<>>, convertPromptWithURLs(input.prompt), <<>>)
    /\ UNCHANGED <<input, handlerVars>>

\* chatMessagesFromTGMessage: convertMessage(ctxBg, bot, message), every file read
ConvertMessage ==
    /\ input.kind = "message"
    /\ output = NoOutput
    /\ LET err == convertMessage(ShapeOf(input.message), "ok")
       IN output' = IF err # <<>>
                    THEN Output("message", NoWeb, <<>>, <<>>, <<>>, err)
                    ELSE Output("message", NoWeb,
                             <<Tok("word", chatMessageText(input.message))>>,
                             [i \in 1..chatMessageFiles(input.message) |->
                                 <<Tok("bytes", "file")>>],
                             <<>>, <<>>)
    /\ UNCHANGED <<input, handlerVars>>

\* answerWithVoice: pcmToWav(pcmBytes, bitRate, wavBitDepth, wavNumChannels)
ConvertPCM ==
    /\ input.kind = "pcm"
    /\ output = NoOutput
    /\ output' = pcmToWav(input)
    /\ UNCHANGED <<input, handlerVars>>

\* gt.PromptFromFile(filename, file): the i-th file of the message, named "file i"
PromptFromFile(i) == [kind |-> "file", text |-> <<Tok("bytes", "file")>>, mime |-> "", n |-> i]

\* the orders in which `range promptFiles` may visit the n keys of the map
RangeOrders(n) == { f \in [1..n -> 1..n] : \A i, j \in 1..n : f[i] = f[j] => i = j }

\* answer: the prompts of the text, then one prompt for every entry of promptFiles
AppendFiles ==
    /\ input.kind = "message"
    /\ output = NoOutput
    /\ convertMessage(ShapeOf(input.message), "ok") = <<>>
    /\ \E order \in RangeOrders(chatMessageFiles(input.message)) :
        output' = Output("answer", NoWeb, <<>>, <<>>,
                         convertPromptWithURLs(<<Tok("word", chatMessageText(input.message))>>)
                             \o [i \in 1..chatMessageFiles(input.message) |->
                                    PromptFromFile(order[i])],
                         <<>>)
    /\ UNCHANGED <<input, handlerVars>>

\* the handlers' first test: isAllowed(update, allowedUsers)
CheckAllowed ==
    /\ input.kind = "update"
    /\ output = NoOutput
    /\ output' = [fn |-> "isAllowed",
                  allowed |-> isAllowed(input.update, allowedUsersOf(input.allowed))]
    /\ UNCHANGED <<input, handlerVars>>

\* redactError(conf, err)
RedactError ==
    /\ input.kind = "error"
    /\ output = NoOutput
    /\ output' = [fn |-> "redactError",
                  redacted |-> redactErrorOf(input.key, input.token, input.err)]
    /\ UNCHANGED <<input, handlerVars>>

PromptNext ==
    \/ FetchURLs
    \/ ConvertURLs
    \/ ConvertMessage
    \/ ConvertPCM
    \/ AppendFiles
    \/ CheckAllowed
    \/ RedactError

PromptSpec == PromptInit /\ [][PromptNext]_vars

(***************************************************************************)
(* Two answers of the same chat running side by side.  Each call of answer *)
(* has its own firstMessageID, mergedText, numTokensInput, numTokensOutput *)
(* and errs; the chat (wire) and the database (db) are shared.  A step is  *)
(* one stream event of one answer with the calls it makes, or the end of   *)
(* one answer.  An event is an element of Events with                      *)
(*   cand    the event has a candidate                                     *)
(*   tokens  the token counts it reports, NoTokens when it reports none    *)
(***************************************************************************)
Answers == {1, 2}

\* the inbound messages of the two updates
InboundOf(a) == a

NoTokens == [set |-> FALSE, input |-> 0, output |-> 0]
TokenCount(i, o) == [set |-> TRUE, input |-> i, output |-> o]

\* the stream of an answer has its own text and its own counts
DeltaOf(a) == IF a = 1 THEN DeltaA ELSE DeltaB
TokensOf(a) == { TokenCount(10 * a + 1, 10 * a + 2), TokenCount(10 * a + 2, 10 * a + 1) }

StreamData(e, cand, tokens) == [ev |-> e, cand |-> cand, tokens |-> tokens]

TextEvent(d) == [type |-> "delta", text |-> d, fr |-> FALSE, reason |-> "STOP", err |-> <<>>]
EmptyEvent == [type |-> "empty", text |-> NoText, fr |-> FALSE, reason |-> "STOP", err |-> <<>>]

StreamOf(a) ==
    { StreamData(TextEvent(DeltaOf(a)), TRUE, NoTokens) }
        \cup { StreamData(EmptyEvent, c, t) : c \in BOOLEAN, t \in TokensOf(a) }

\* the locals of one call of answer
Locals(p, n, first, merged, es, in, out, reported) ==
    [pc |-> p, n |-> n, first |-> first, merged |-> merged, errs |-> es,
     numTokensInput |-> in, numTokensOutput |-> out, reported |-> reported]

ConcInit ==
    /\ ver \in {"Mmid", "Mnew"}
    /\ streamMessages = TRUE
    /\ Idle
    /\ input = NoInput
    /\ output = NoOutput
    /\ answers = [a \in Answers |-> Locals("stream", 0, 0, NoText, <<>>, 0, 0, {})]
    /\ wire = <<>>
    /\ db = <<>>

\* a call on the wire, with the answer that made it
Issued(a, c) ==
    [by |-> a, op |-> c.op, ok |-> c.ok, mid |-> c.mid,
     reply |-> IF c.reply = InboundID THEN InboundOf(a) ELSE c.reply,
     kind |-> c.kind, label |-> c.label, text |-> c.text, detail |-> c.detail]

IssuedAll(a, cs) == [i \in 1..Len(cs) |-> Issued(a, cs[i])]

Max(x, y) == IF x < y THEN y ELSE x

\* the event reaches the token check: Mnew checks inside its loop over the candidates
ChecksTokens(v, d) == d.tokens.set /\ (v = "Mnew" => d.cand)

FirstOfEither(as, a) == IF as[a].first # 0 THEN as[a].first ELSE as[3 - a].first
\* var firstMessageID *int64 = nil, declared in answer
FirstOf(as, a) == as[a].first

ConcStreamEvent ==
    \E a \in Answers :
        /\ answers[a].pc = "stream"
        /\ answers[a].n < MaxEvents
        /\ \E d \in StreamOf(a), ok \in BOOLEAN :
            LET loc == answers[a]
                st == Consume(RelayState(wire, <<>>, loc.errs, FirstOf(answers, a), loc.merged),
                              ver, d.ev, TRUE, ok)
                new == SubSeq(st.calls, Len(wire) + 1, Len(st.calls))
                counted == ChecksTokens(ver, d)
            IN
            /\ (~UsesOk2(ver, d.ev) => ok)
            /\ wire' = wire \o IssuedAll(a, new)
            /\ answers' = [answers EXCEPT ![a] =
                   Locals("stream", loc.n + 1, st.first, st.merged, st.errs,
                          IF counted THEN Max(loc.numTokensInput, d.tokens.input)
                          ELSE loc.numTokensInput,
                          IF counted THEN Max(loc.numTokensOutput, d.tokens.output)
                          ELSE loc.numTokensOutput,
                          IF d.tokens.set THEN loc.reported \cup {d.tokens} ELSE loc.reported)]
            /\ db' = db
    /\ UNCHANGED <<input, output, ver, streamMessages, pc, upd, calls, logs, saved, stored, parent,
                   answerVars>>

\* the stream has ended: the reaction on the first message and the interaction record
ConcAnswerFinish ==
    \E a \in Answers, ok \in BOOLEAN :
        LET loc == answers[a]
            first == FirstOf(answers, a)
        IN
        /\ loc.pc = "stream"
        /\ (first = 0 => ok)
        /\ wire' = IF first # 0
                    THEN Append(wire, Issued(a, SetMessageReaction(first, ok)))
                    ELSE wire
        /\ db' = Append(db, [by |-> a, text |-> loc.merged, input |-> loc.numTokensInput,
                              output |-> loc.numTokensOutput, success |-> Successful(first)])
        /\ answers' = [answers EXCEPT ![a].pc = "done"]
        /\ UNCHANGED <<input, output, ver, streamMessages, pc, upd, calls, logs, saved, stored,
                       parent, answerVars>>

ConcNext ==
    \/ ConcStreamEvent
    \/ ConcAnswerFinish

ConcSpec == ConcInit /\ [][ConcNext]_vars


(***************************************************************************)
(* The database and the inline queries.  A record is a saved prompt with   *)
(* its result; text stands for the texts of the prompt and of the result   *)
(* and is the rank of the record by created_at.                            *)
(***************************************************************************)
MaxRecords == 7
numSuccessfulPromptsToLoad == 5

UserIDs == {101, 102}

InlineInit ==
    /\ ver \in {"Mmid", "Mnew"}
    /\ streamMessages = TRUE
    /\ Idle
    /\ input = NoInput
    /\ output = NoOutput
    /\ answers = <<>>
    /\ wire = <<>>
    /\ db = <<>>

\* savePromptAndResult with a database: an answer of some user is recorded
SavePrompt ==
    /\ wire = <<>>
    /\ Len(db) < MaxRecords
    /\ \E u \in UserIDs, successful \in BOOLEAN :
        db' = Append(db, [by |-> u, text |-> Len(db) + 1, input |-> 0, output |-> 0,
                          success |-> successful])
    /\ UNCHANGED <<input, output, ver, streamMessages, pc, upd, calls, logs, saved, stored, parent,
                   answerVars, answers, wire>>

RECURSIVE Reverse(_)
Reverse(q) == IF q = <<>> THEN <<>> ELSE Append(Reverse(Tail(q)), Head(q))

\* Limit(n)
Limit(q, n) == IF Len(q) <= n THEN q ELSE SubSeq(q, 1, n)

OfAnyUser(r, userID) == r.success
\* Where("prompts.user_id = ? AND generateds.successful = ?", userID, true)
Where(r, userID) == r.by = userID /\ r.success

\* loadSuccessfulPrompts: Where ... Order("prompts.created_at DESC") Limit(5)
loadSuccessfulPrompts(records, userID) ==
    Limit(Reverse(SelectSeq(records, LAMBDA r : Where(r, userID))), numSuccessfulPromptsToLoad)

\* retrieveSuccessfulPrompts: nothing without a database, or when the load fails
retrieveSuccessfulPrompts(records, configured, loadOk, userID) ==
    IF configured /\ loadOk THEN loadSuccessfulPrompts(records, userID) ELSE <<>>

\* tg.NewInlineQueryResultArticle(title, ...); prompt: the record it shows, 0 for none
Article(title, prompt) == [title |-> title, prompt |-> prompt]
NoResult == Article("No result", 0)

\* the articles of the answer to an inline query
InlineResults(prompts) ==
    IF Len(prompts) > 0 THEN [i \in 1..Len(prompts) |-> Article("prompt.Text", prompts[i].text)]
    ELSE <<NoResult>>

\* bot.SetInlineQueryHandler: the handler of an inline query, from a user of any kind
AnswerInlineQuery ==
    /\ wire = <<>>
    /\ \E u \in UserIDs, configured \in BOOLEAN, loadOk \in BOOLEAN, ok \in BOOLEAN :
        LET prompts == retrieveSuccessfulPrompts(db, configured, loadOk, u)
        IN
        /\ (~configured => db = <<>> /\ loadOk)
        /\ wire' = <<[by |-> u, op |-> "answerInlineQuery", ok |-> ok, loaded |-> loadOk,
                      results |-> InlineResults(prompts)]>>
        /\ logs' = (IF loadOk THEN <<>> ELSE <<Log("retrieveSuccessfulPrompts", ErrSave)>>)
                       \o (IF ok THEN <<>> ELSE <<Log("inlineQuery", ErrPlatform)>>)
    /\ UNCHANGED <<input, output, ver, streamMessages, pc, upd, calls, saved, stored, parent,
                   answerVars, answers, db>>

InlineNext ==
    \/ SavePrompt
    \/ AnswerInlineQuery

InlineSpec == InlineInit /\ [][InlineNext]_vars


(***************************************************************************)
(* Properties.                                                             *)
(***************************************************************************)
\* the calls that create or edit a chat message
IsMessageCall(c) == c.op \in {"sendMessage", "editMessageText", "sendDocument"}
MessageCalls == SelectSeq(calls, IsMessageCall)

IsErrorMessage(c) == c.op = "sendMessage" /\ c.kind = "error"
ErrorMessages == { i \in 1..Len(calls) : IsErrorMessage(calls[i]) }

AllCallsOk == \A i \in 1..Len(calls) : calls[i].ok

\* the answer consumes a stream (every revision but B1 without StreamMessages)
Streamed == ver # "B1" \/ streamMessages

\* the texts of the first n delivered events, concatenated
RECURSIVE Cumulative(_, _)
Cumulative(evs, n) == IF n = 0 THEN NoText ELSE Cumulative(evs, n - 1) \o evs[n].text

OnlyTextDeltas ==
    /\ delivered # <<>>
    /\ \A i \in 1..Len(delivered) : delivered[i].type = "delta" /\ ~delivered[i].fr

\* the generation call failed: through the stream or through its return value
GenerationFailed == streamFailed \/ retErr # <<>>
GenerationErrorText == IF retErr # <<>> THEN retErr ELSE Last(delivered).err

ContentDelivered == \E i \in 1..Len(calls) : calls[i].kind = "content" /\ calls[i].ok

C2_DisallowedNoCalls ==
    (upd # NoUpdate /\ upd.user \notin AllowedTelegramUsers) => calls = <<>>

\* C3: when answer returns, savePromptAndResult has been called exactly once.
C3_ExactlyOneRecord ==
    pc = "return" => Len(saved) = 1

\* C4: when the generation call failed, the interaction is recorded exactly once,
\* with success=false and the redacted error text as its result.
C4_FailureRecordsError ==
    (pc = "return" /\ GenerationFailed) =>
        /\ Len(saved) = 1
        /\ ~saved[1].success
        /\ saved[1].rkind = "error"
        /\ saved[1].detail = redactError(GenerationErrorText)

\* C5: when only the generation call failed and every platform call succeeded,
\* the chat has received exactly one error message once the update is handled.
C5_ExactlyOneErrorMessage ==
    (/\ pc = "done"
     /\ GenerationFailed
     /\ AllCallsOk
     /\ \A i \in 1..Len(errs) : errs[i] \in StreamErrors) =>
        Cardinality(ErrorMessages) = 1

\* C6: an answer attempt on an allowed, usable update that ends without any
\* generated content delivered has sent (or tried to send) an error message.
C6_FailureReported ==
    (/\ pc = "done"
     /\ upd.kind \in {"message", "edited", "mediaGroup"}
     /\ isAllowed(upd, AllowedTelegramUsers)
     /\ usableMessageFromUpdate(upd)
     /\ ~ContentDelivered) =>
        ErrorMessages # {}

C8_ReactionFailureIsCosmetic ==
    (/\ pc = "done"
     /\ Streamed
     /\ firstMessageID # 0
     /\ ~GenerationFailed
     /\ ~ctxExpired
     /\ \E i \in 1..Len(calls) : calls[i].op = "setMessageReaction" /\ ~calls[i].ok
     /\ \A i \in 1..Len(calls) : calls[i].op # "setMessageReaction" => calls[i].ok
     /\ \A i \in 1..Len(errs) : errs[i] = ErrReaction) =>
        /\ errs = <<>>
        /\ ErrorMessages = {}

\* C9: no log line and no chat message carries the bot token or the API key.
C9_NoSecretLeaves ==
    /\ \A i \in 1..Len(logs) : ~HasSecret(logs[i].text)
    /\ \A i \in 1..Len(calls) : ~HasSecret(calls[i].detail)

\* C10 as claimed: a streamed answer whose final text exceeds the
\* single-message limit sends the full text as a file with a truncated caption.
C10_LongStreamSentAsFile ==
    (pc = "return" /\ Streamed /\ TextLen(mergedText) > MaxMessageLength) =>
        \E i \in 1..Len(calls) :
            /\ calls[i].op = "sendDocument"
            /\ calls[i].text = mergedText
            /\ calls[i].label = Caption(mergedText)

IsContentCall(c) == c.kind = "content"
ContentCalls == SelectSeq(calls, IsContentCall)

\* C10 amended: a streamed answer whose accumulated text exceeds the
\* single-message limit never sends a file; it keeps relaying in place, and an
\* edit of the first message carries the whole accumulated text, which the
\* platform rejects.
C10_LongStreamKeepsEditing ==
    (pc \in {"stream", "finish", "return", "done"} /\ Streamed
        /\ TextLen(mergedText) > MaxMessageLength) =>
        /\ \A i \in 1..Len(calls) : calls[i].op # "sendDocument"
        /\ ContentCalls # <<>>
        /\ Last(ContentCalls).op \in {"sendMessage", "editMessageText"}
        /\ (Last(ContentCalls).op = "editMessageText" =>
              /\ Last(ContentCalls).mid = firstMessageID
              /\ Last(ContentCalls).text = mergedText
              /\ ~Last(ContentCalls).ok)

C10_Witness ==
    /\ pc = "return"
    /\ Streamed
    /\ firstMessageID # 0
    /\ mergedText = DeltaBig \o DeltaA
    /\ Last(ContentCalls).op = "editMessageText"
    /\ Last(ContentCalls).text = DeltaBig \o DeltaA
    /\ ~Last(ContentCalls).ok

\* the single-shot path of B1 (conf.StreamMessages off)
SingleShot == ver = "B1" /\ ~streamMessages

\* p is a prefix of t
IsTextPrefix(p, t) == Take(t, TextLen(p)) = p

\* C11: a non-streamed text longer than 4096 characters is sent as a file whose
\* caption is a prefix of the text of at most 128 characters followed by "...";
\* a text of at most 4096 characters is sent as an ordinary text message.
C11_SizeFallback ==
    SingleShot =>
        \A i \in 1..Len(calls) :
            (calls[i].kind = "content" /\ calls[i].text # NoText) =>
                IF CharLen(calls[i].text) > MaxMessageLength
                THEN /\ calls[i].op = "sendDocument"
                     /\ \E k \in 1..Len(calls[i].label) :
                          /\ SubSeq(calls[i].label, k, Len(calls[i].label)) = Ellipsis
                          /\ IsTextPrefix(SubSeq(calls[i].label, 1, k - 1), calls[i].text)
                          /\ CharLen(SubSeq(calls[i].label, 1, k - 1)) <= CaptionLength
                ELSE calls[i].op = "sendMessage"

IsIn(e, es) == \E i \in 1..Len(es) : es[i] = e

\* C12: when the upload of the parent's files failed and the rest of the answer
\* succeeded (content relayed, no other failure), no error message is sent.
C12_EnrichmentFailureIsSilent ==
    (/\ pc = "done"
     /\ uploadFailed
     /\ firstMessageID # 0
     /\ ~GenerationFailed
     /\ ~ctxExpired
     /\ AllCallsOk
     /\ \A i \in 1..Len(errs) : errs[i] = ErrUpload) =>
        ErrorMessages = {}

\* C13: when the upload of the parent's files failed, the history is exactly one
\* turn of role model with the parent's text and no file reference, and the
\* generation call is still made (unless the conversion of the prompts failed).
C13_UploadFailureKeepsTextHistory ==
    uploadFailed =>
        /\ history = <<[role |-> "model", text |-> "parent.text", files |-> 0]>>
        /\ (~IsIn(ErrContents, errs) => generated)

C13_Witness ==
    /\ uploadFailed
    /\ ver = "Mmid"
    /\ parent = "media"
    /\ pc = "stream"
    /\ generated
    /\ Len(history) = 1
    /\ history[1].files = 0

\* the download of a media file failed: at GetFile or at the fetch of its URL
DownloadFailed ==
    \E i \in 1..Len(calls) : calls[i].op \in {"getFile", "downloadFile"} /\ ~calls[i].ok

\* the labels of the error messages sent so far
ErrorLabels == { calls[i].label : i \in ErrorMessages }

\* C14: after a failed download of one media file the prompt is still built
\* and the answer proceeds to the generation call.
C14_DownloadFailureSkipsFile ==
    (pc = "done" /\ DownloadFailed) => generated

\* the inbound message or its reply-parent is of an unsupported type
CannotConvert ==
    /\ upd.kind \in {"message", "edited", "mediaGroup"}
    /\ isAllowed(upd, AllowedTelegramUsers)
    /\ (upd.shape = "none" \/ upd.reply = "unsupported")

Count(tok, text) == Cardinality({ i \in 1..Len(text) : text[i] = tok })

\* a URL left in the text as it was: not the url attribute of a <link> element
RawAt(text, i) ==
    text[i].k = "url" /\ (i = 1 \/ text[i - 1] \notin {Tok("lit", "<link url=")})

TextPlain == Response(200, "text/plain")

\* C16: every occurrence of a URL of a reachable text/plain resource is replaced
\* by the fetched body, also when the URL occurs more than once, and a prompt
\* whose URLs are unreachable comes back unchanged.
C16_TextURLsReplaced ==
    output.fn = "fetch" =>
        /\ \A u \in URLsIn(input.prompt) :
              output.web[u] = TextPlain =>
                  /\ Count(Tok("body", u), output.text) = Count(Tok("url", u), input.prompt)
                  /\ \A i \in 1..Len(output.text) :
                        ~(RawAt(output.text, i) /\ output.text[i].s = u)
        /\ ((\A u \in URLsIn(input.prompt) : output.web[u] = Unreachable)
                => output.text = input.prompt /\ output.files = <<>>)

\* every URL of the prompt occurs once
DistinctURLs(prompt) == \A u \in URLsIn(prompt) : Count(Tok("url", u), prompt) = 1

IsTextual(resp) == resp.status = 200 /\ supportedHTTPContentType(resp.ctype)
IsBinary(resp) ==
    resp.status = 200 /\ ~supportedHTTPContentType(resp.ctype)
        /\ supportedFileMimeType(resp.ctype)

\* C17: a URL answered 200 with text/html, text/* or application/json is
\* replaced by its fetched text, a URL answered with a recognized binary type
\* by a placeholder with its bytes appended to the files, and any other URL
\* is left in place and adds no file.
C17_URLsByContentType ==
    (output.fn = "fetch" /\ DistinctURLs(input.prompt)) =>
        \A u \in URLsIn(input.prompt) :
            LET resp == output.web[u]
                raw == \E i \in 1..Len(output.text) :
                           RawAt(output.text, i) /\ output.text[i].s = u
                file == \E i \in 1..Len(output.files) : output.files[i] = <<Tok("bytes", u)>>
            IN IF IsTextual(resp)
               THEN /\ \E i \in 1..Len(output.text) :
                          output.text[i] \in {Tok("body", u), Tok("doc", u)}
                    /\ ~raw /\ ~file
               ELSE IF IsBinary(resp)
               THEN /\ \E i \in 1..(Len(output.text) - 1) :
                          /\ output.text[i] = Tok("lit", "<file fetched-from=")
                          /\ output.text[i + 1] = Tok("url", u)
                    /\ file
               ELSE Count(Tok("url", u), output.text) = 1 /\ raw /\ ~file

VideoHosts == {"www.youtube.com", "youtu.be"}

\* C18: a URL becomes a FileURI prompt of type video/mp4 if and only if its host
\* is www.youtube.com or youtu.be; every other URL stays in a text prompt.
C18_OnlyVideoHostsBecomeURIs ==
    output.fn = "convert" =>
        \A u \in URLsIn(input.prompt) :
            /\ (\E i \in 1..Len(output.prompts) :
                    output.prompts[i] = PromptFromURI(u, "video/mp4"))
                  <=> Host(u) \in VideoHosts
            /\ (Host(u) \notin VideoHosts =>
                    \E i \in 1..Len(output.prompts) :
                        /\ output.prompts[i].kind = "text"
                        /\ Count(Tok("url", u), output.prompts[i].text) > 0)

\* C19 as claimed: a message with no text and no media converts, without an
\* error, to the default placeholder text with no files.
C19_EmptyMessageGetsDefault ==
    (output.fn = "message" /\ ~HasText(input.message) /\ ~HasMedia(input.message)) =>
        /\ output.err = <<>>
        /\ output.text = <<Tok("word", defaultPromptForMedias)>>
        /\ output.files = <<>>

\* C19: a message with no text and no media is not converted: convertMessage
\* returns the error "not a supported type" and no chat message.  The default
\* placeholder is the text of a message with media and no caption, which is
\* converted with its files.
C19_EmptyMessageIsRejected ==
    output.fn = "message" =>
        /\ (~HasText(input.message) /\ ~HasMedia(input.message)) =>
              output.err = ErrUnsupported /\ output.text = <<>> /\ output.files = <<>>
        /\ (HasMedia(input.message) /\ ~HasCaption(input.message)) =>
              /\ output.err = <<>>
              /\ output.text = <<Tok("word", defaultPromptForMedias)>>
              /\ Len(output.files) = input.message.media

C19_Witness == output.fn = "message" /\ input.message = NoMessage

\* a call of savePromptAndResult wrote nothing: the write failed or no database
\* is configured
SaveFailed == \E i \in 1..Len(stored) : stored[i] # "stored"

\* the error of the failed write is part of the text
RECURSIVE Mentions(_, _)
Mentions(text, e) ==
    Len(text) >= Len(e)
        /\ (SubSeq(text, 1, Len(e)) = e \/ Mentions(Tail(text), e))

\* C20: a failed write of savePromptAndResult, or a database that is not
\* configured, is only logged: the error answer returns does not hold it, no
\* outbound call carries it, and an answer that is otherwise successful ends
\* with no error message.
C20_SaveFailureOnlyLogged ==
    SaveFailed =>
        /\ \A i \in 1..Len(errs) : ~Mentions(errs[i], ErrSave)
        /\ \A i \in 1..Len(calls) : ~Mentions(calls[i].detail, ErrSave)
        /\ ((pc = "done" /\ errs = <<>> /\ ~GenerationFailed /\ ~ctxExpired /\ AllCallsOk)
                => ErrorMessages = {})
        /\ \A i \in 1..Len(stored) :
              stored[i] = "nodb" => ~IsIn(Log("savePromptAndResult", ErrSave), logs)

C20_Witness ==
    /\ pc = "done"
    /\ stored = <<"failed">>
    /\ IsIn(Log("savePromptAndResult", ErrSave), logs)
    /\ firstMessageID # 0
    /\ errs = <<>>
    /\ ErrorMessages = {}

(***************************************************************************)
(* Answers of the /image, /speech and /video commands                      *)
(***************************************************************************)
MediaAnswered(cmd) == pc = "answered" /\ upd.cmd = cmd

VoiceCalls == { i \in 1..Len(calls) : calls[i].op = "sendVoice" }

IsPCM(part) == part.kind = "pcm"
ConversionFails(part) == IsPCM(part) /\ ~(part.wav /\ part.ogg)

\* the generation returned parts and its first one is audio that could not be converted
FirstConversionFails ==
    MediaAnswered("/speech") /\ parts # <<>> /\ ConversionFails(parts[1])

ConversionLogged == \E i \in 1..Len(logs) : logs[i].site = "answerWithVoice:convert"

HasErrorMessage(label) ==
    \E i \in ErrorMessages : calls[i].label = label

ArtifactOps == {"sendPhoto", "sendVoice", "sendVideo"}
ArtifactsSent == { i \in 1..Len(calls) : calls[i].op \in ArtifactOps /\ calls[i].ok }

\* C22: after one generated artifact of an image, speech or video answer has been sent
\* successfully, no further artifact of that answer is sent
C22_FirstSentArtifactWins ==
    pc = "answered" =>
        \A i \in ArtifactsSent : \A j \in 1..Len(calls) : j > i => calls[j].op \notin ArtifactOps

RecordedSuccess == \E i \in 1..Len(saved) : saved[i].success

IsReaction(c) == c.op = "setMessageReaction"
Reactions == { i \in 1..Len(calls) : IsReaction(calls[i]) }

\* the messages the answer created with its content
IsOutbound(c) == c.op \in SendOps /\ c.kind = "content" /\ c.ok
Outbound == { i \in 1..Len(calls) : IsOutbound(calls[i]) }

FinalOutbound == CHOOSE i \in Outbound : \A j \in Outbound : j <= i

\* C23 as stated: a recorded success has a reaction requested on the final outbound
\* message of the answer, for text, image and speech answers alike
C23_DoneReactionOnFinalOutbound ==
    RecordedSuccess =>
        /\ Outbound # {}
        /\ \E r \in Reactions : r > FinalOutbound /\ calls[r].mid = calls[FinalOutbound].mid

\* C23: when a text answer is recorded with success = true, a reaction has been requested,
\* after the send, on the last message the answer created with its content; an image, speech
\* or video answer requests its only reaction on the inbound message, before it generates
\* anything, and none on the artifact it sends
C23_ReactionOfSuccessfulAnswer ==
    RecordedSuccess =>
        IF pc = "answered"
        THEN /\ Reactions = {1}
             /\ calls[1].mid = InboundID
             /\ \A i \in Outbound : i > 1 /\ calls[i].mid # InboundID
             /\ Outbound # {}
        ELSE /\ Outbound # {}
             /\ \E r \in Reactions : r > FinalOutbound /\ calls[r].mid = calls[FinalOutbound].mid

C23_Witness ==
    /\ MediaAnswered("/image")
    /\ RecordedSuccess
    /\ \E i \in Outbound : calls[i].op = "sendPhoto"

(***************************************************************************)
(* Answers running side by side                                            *)
(***************************************************************************)
\* the ids of the messages that answer a created
CreatedBy(a) ==
    { wire[i].mid : i \in { j \in 1..Len(wire) :
                               wire[j].by = a /\ wire[j].op = "sendMessage" /\ wire[j].ok } }

TargetsOwn(i) ==
    wire[i].op \in {"editMessageText", "setMessageReaction"} =>
        wire[i].mid \in CreatedBy(wire[i].by)

OnlyOf(a, text) == \A i \in 1..Len(text) : <<text[i]>> = DeltaOf(a)

\* C24: every edit and every reaction of an answer targets a message which that same answer
\* created, no message is created by two answers, and the text and the token counts of the
\* record of an answer come from its own stream
C24_AnswersDoNotShareState ==
    /\ \A i \in 1..Len(wire) : TargetsOwn(i)
    /\ CreatedBy(1) \cap CreatedBy(2) = {}
    /\ \A i \in 1..Len(db) :
          /\ OnlyOf(db[i].by, db[i].text)
          /\ db[i].text = answers[db[i].by].merged
          /\ db[i].input \in {0} \cup { t.input : t \in TokensOf(db[i].by) }
          /\ db[i].output \in {0} \cup { t.output : t \in TokensOf(db[i].by) }

\* both answers have relayed, the calls of one between the calls of the other, and both
\* have been recorded, one of them with counts
C24_Witness ==
    /\ Len(db) = 2
    /\ \A i \in 1..2 : db[i].success
    /\ \E i \in 1..2 : db[i].input # 0
    /\ \E i, j, k \in 1..Len(wire) :
          /\ i < j /\ j < k
          /\ wire[i].by = 1 /\ wire[j].by = 2 /\ wire[k].by = 1
          /\ wire[i].op = "sendMessage" /\ wire[j].op = "sendMessage"
          /\ wire[k].op = "editMessageText"

(***************************************************************************)
(* pcmToWav                                                                *)
(***************************************************************************)
\* C25: for every PCM buffer, sample rate, bit depth and channel count, the header has
\* ChunkSize = 36 + the length of the data, SampleRate = the sample rate given and
\* BitsPerSample = the bit depth given
C25_HeaderMatchesInput ==
    (input.kind = "pcm" /\ output # NoOutput) =>
        /\ output.err = <<>>
        /\ output.ChunkSize = Plus(input.len, 36)
        /\ output.SampleRate = input.sampleRate
        /\ output.BitsPerSample = input.bitDepth

(***************************************************************************)
(* Inline queries                                                          *)
(***************************************************************************)
\* the ranks of the successful records of user u, the newest first in every order
SuccessfulOf(u) == { db[i].text : i \in { j \in 1..Len(db) : db[j].by = u /\ db[j].success } }

Shown(call) == { call.results[i].prompt : i \in 1..Len(call.results) }

\* C26: an inline query is answered with at most 5 articles, each of a successful record
\* of the querying user, the newest first and none of them left out for an older one; when
\* the user has no such record, or there is no database, or the load fails, the answer is
\* the one article 'No result'
C26_InlineQueryOwnLastPrompts ==
    wire # <<>> =>
        LET call == wire[1]
            res == call.results
            own == SuccessfulOf(call.by)
        IN IF own = {} \/ ~call.loaded
           THEN res = <<NoResult>>
           ELSE /\ Len(res) <= numSuccessfulPromptsToLoad
                /\ Len(res) = IF Cardinality(own) < numSuccessfulPromptsToLoad
                               THEN Cardinality(own) ELSE numSuccessfulPromptsToLoad
                /\ Shown(call) \subseteq own
                /\ \A i, j \in 1..Len(res) : i < j => res[i].prompt > res[j].prompt
                /\ \A t \in own \ Shown(call) : \A i \in 1..Len(res) : t < res[i].prompt

\* a user with six successful records, the oldest of them left out, and a newer successful
\* record of another user
C26_Witness ==
    /\ wire # <<>>
    /\ wire[1].loaded
    /\ Len(wire[1].results) = numSuccessfulPromptsToLoad
    /\ Cardinality(SuccessfulOf(wire[1].by)) = numSuccessfulPromptsToLoad + 1
    /\ \E i \in 1..Len(db) : db[i].by # wire[1].by /\ db[i].success /\ i > 1

(***************************************************************************)
(* Streamed answers: finish markers, token counts, relay actions           *)
(***************************************************************************)
IsMarker(chunk) == \E r \in FinishReasons : <<chunk>> = FinishMarker(r)

MarkersIn(text) == Cardinality({ i \in 1..Len(text) : IsMarker(text[i]) })

WithFinishReason == { i \in 1..Len(delivered) : delivered[i].fr }

\* C27: the buffer holds one marker for every event delivered with a finish reason other
\* than STOP, with or without content, and none for the other events
C27_OneMarkerPerFinishReason ==
    HasContentsStep(ver) => MarkersIn(mergedText) = Cardinality(WithFinishReason)

MaxOf(S) == IF S = {} THEN 0 ELSE CHOOSE x \in S : \A y \in S : y <= x

ReportedInput(a) == MaxOf({ t.input : t \in answers[a].reported })
ReportedOutput(a) == MaxOf({ t.output : t \in answers[a].reported })

\* C28: the counts an answer holds are the maxima of the counts its events have reported so
\* far (so they never decrease, and are 0 when none was reported), and the counts of its
\* record are the maxima over all its events
C28_TokenCountsAreMaxima ==
    /\ \A a \in DOMAIN answers :
          /\ answers[a].numTokensInput = ReportedInput(a)
          /\ answers[a].numTokensOutput = ReportedOutput(a)
    /\ \A i \in 1..Len(db) :
          /\ db[i].input = ReportedInput(db[i].by)
          /\ db[i].output = ReportedOutput(db[i].by)

IsRelay(c) == c.kind = "content" /\ c.op \in {"sendMessage", "editMessageText"}

\* the last call made so far is a relay action that the platform accepted
RelayJustDone == pc = "stream" /\ calls # <<>> /\ IsRelay(Last(calls)) /\ Last(calls).ok

\* C29: after a successful relay action, create or edit, the text of the chat message is
\* the accumulated buffer, whatever relay actions failed before
C29_MessageMirrorsBuffer ==
    (HasContentsStep(ver) /\ RelayJustDone) => Last(calls).text = mergedText

Relays == SelectSeq(calls, IsRelay)

\* the chunks of p are the first chunks of t
StartsWith(t, p) == Len(p) <= Len(t) /\ SubSeq(t, 1, Len(p)) = p

EditsFollowCreate ==
    \A i \in 1..Len(Relays) :
        Relays[i].op = "editMessageText" =>
            \E j \in 1..(i - 1) :
                /\ Relays[j].op = "sendMessage"
                /\ Relays[j].ok
                /\ Relays[j].mid = Relays[i].mid

\* C30: every edit of a streamed answer comes after a successful create and targets the id
\* it returned, and the text of every relay action starts with the text of the one before
C30_RelaysOrderedAndGrowing ==
    (HasContentsStep(ver) /\ pc \in {"stream", "finish", "return", "done"}) =>
        /\ EditsFollowCreate
        /\ \A i \in 2..Len(Relays) : StartsWith(Relays[i].text, Relays[i - 1].text)

Creates == { i \in 1..Len(Relays) : Relays[i].op = "sendMessage" }
AcceptedCreates == { i \in Creates : Relays[i].ok }

InStreamedAnswer == HasContentsStep(ver) /\ pc \in {"stream", "finish", "return", "done"}

\* C31 as stated: one relay action per buffer mutation, and at most one of them a create
C31_CreateOnceThenEdit ==
    InStreamedAnswer =>
        /\ Len(Relays) = Len(mergedText)
        /\ Cardinality(Creates) <= 1

\* C31: every buffer mutation triggers exactly one relay action, never a second one for a
\* rejected call; at most one create is accepted; while none has been accepted every relay
\* action is a create, and after the accepted one every relay action is an edit of it
C31_OneRelayPerMutation ==
    InStreamedAnswer =>
        /\ Len(Relays) = Len(mergedText)
        /\ Cardinality(AcceptedCreates) <= 1
        /\ \A i \in 1..Len(Relays) :
              IF \E j \in AcceptedCreates : j < i
              THEN /\ Relays[i].op = "editMessageText"
                   /\ \E j \in AcceptedCreates : Relays[j].mid = Relays[i].mid
              ELSE Relays[i].op = "sendMessage"

\* a rejected create, then an accepted one, then an edit
C31_Witness ==
    /\ InStreamedAnswer
    /\ Len(Relays) = 3
    /\ ~Relays[1].ok /\ Relays[1].op = "sendMessage"
    /\ Relays[2].ok /\ Relays[2].op = "sendMessage"
    /\ Relays[3].op = "editMessageText"

(***************************************************************************)
(* The reaction on the inbound message                                     *)
(***************************************************************************)
Received == { i \in 1..Len(calls) : IsReaction(calls[i]) /\ calls[i].mid = InboundID }
Downloads == { i \in 1..Len(calls) : calls[i].op \in {"getFile", "downloadFile"} }

\* the answer has gone past its first statement
AnswerEntered == pc \in {"stream", "generate", "parts", "finish", "return", "answered"}

\* C32 as stated: the reaction on the inbound message is requested before any download
\* made for the update
C32_ReactionBeforeAnyWork ==
    \A d \in Downloads : \E r \in Received : r < d

\* C32: the reaction on the inbound message is requested when answer is entered: after
\* every download of the media of the message and of its parent, before the history upload,
\* the generation and every message of the answer; when the conversion of the message
\* fails, no reaction is requested
C32_ReactionOnEnteringAnswer ==
    /\ \A r \in Received : \A d \in Downloads : d < r
    /\ (AnswerEntered => Received # {})
    /\ (generated \/ uploadFailed \/ history # <<>> => Received # {})
    /\ \A i \in 1..Len(calls) :
          (calls[i].kind = "content" \/ i \in Reactions \ Received) =>
              \E r \in Received : r < i
    /\ ("FailedToGetChatMessages" \in ErrorLabels => Received = {})

\* media were downloaded, then the reaction was requested, then the history upload failed
C32_Witness ==
    /\ Downloads # {}
    /\ Received # {}
    /\ uploadFailed
    /\ generated

(***************************************************************************)
(* The prompts handed to the content conversion                            *)
(***************************************************************************)
FilePrompts(ps) == SelectSeq(ps, LAMBDA q : q.kind = "file")

\* C33: the prompts handed over are the text fragments, then the files of the message in
\* the order of ChatMessage.files, the same in every run
C33_FragmentsInFixedOrder ==
    (input.kind = "message" /\ output.fn = "answer") =>
        LET ps == output.prompts
            n == chatMessageFiles(input.message)
        IN /\ Len(FilePrompts(ps)) = n
           /\ \A i \in 1..Len(ps) :
                 IF i <= Len(ps) - n THEN ps[i].kind # "file"
                 ELSE ps[i].kind = "file" /\ ps[i].n = i - (Len(ps) - n)

(***************************************************************************)
(* The success flag of a streamed answer                                   *)
(***************************************************************************)
\* answer went through its generation step and has returned
StreamedAndRecorded == InStreamedAnswer /\ generated /\ pc \in {"return", "done"}

\* C34: a streamed answer that reached the generation step is recorded once, with
\* success = TRUE exactly when a message with stream content was created in the chat
C34_SuccessIffFirstMessageCreated ==
    StreamedAndRecorded =>
        /\ Len(saved) = 1
        /\ saved[1].success <=> AcceptedCreates # {}
        /\ saved[1].success <=> firstMessageID # 0

\* a first create was rejected, a later one accepted, and the answer is recorded
C34_Witness ==
    /\ StreamedAndRecorded
    /\ saved[1].success
    /\ \E i \in Creates : ~Relays[i].ok

(***************************************************************************)
(* The text of the record of a streamed answer                             *)
(***************************************************************************)
\* what one event brings: the marker of its finish reason, if it has one other than STOP,
\* and its text delta, if it has one
Brings(e) ==
    (IF e.fr THEN FinishMarker(e.reason) ELSE <<>>)
        \o (IF e.type = "delta" THEN e.text ELSE <<>>)

RECURSIVE ReceivedText(_)
ReceivedText(es) == IF es = <<>> THEN <<>> ELSE Brings(Head(es)) \o ReceivedText(Tail(es))

\* C35: the text recorded for a streamed answer is the concatenation, in the order of
\* arrival, of every text delta and every finish-reason marker of the events received,
\* whether or not the sends and edits were accepted
C35_RecordIsEverythingReceived ==
    StreamedAndRecorded => saved[1].text = ReceivedText(delivered)

(***************************************************************************)
(* The allow-list                                                          *)
(***************************************************************************)
Listed(l, name) == \E i \in DOMAIN l : l[i] = name

CarriesSender(u) == HasMessage(u) \/ HasEditedMessage(u) \/ HasInlineQuery(u)

\* C36: isAllowed is true only for a message, an edited message or an inline query whose
\* sender has a username that is listed; an update without a sender username, or of another
\* kind, is never allowed, whatever the allow-list contains
C36_OnlyListedSendersAllowed ==
    (output.fn = "isAllowed" /\ output.allowed) =>
        /\ CarriesSender(input.update)
        /\ input.update.user # NoUsername
        /\ Listed(input.allowed, input.update.user)

(***************************************************************************)
(* redactError                                                             *)
(***************************************************************************)
Redacted == output.fn = "redactError"

\* the API key, when one is configured, and the bot token
ConfiguredSecrets == {input.token} \cup (IF input.key = NoKey THEN {} ELSE {input.key})

\* the secret has a character of the redaction marker
MeetsMarker(secret) ==
    \E i \in DOMAIN secret, j \in DOMAIN redactedString : secret[i] = redactedString[j]

RECURSIVE Concatenated(_)
Concatenated(ps) == IF ps = <<>> THEN <<>> ELSE Head(ps).text \o Concatenated(Tail(ps))

CutIntoFragments == input.kind = "prompt" /\ output.fn = "convert"

\* C38: the texts of the Text fragments and the URIs of the FileURI fragments returned by
\* convertPromptWithURLs, concatenated in order, are the prompt; an empty prompt has no
\* fragment
C38_FragmentsRebuildPrompt ==
    CutIntoFragments =>
        /\ Concatenated(output.prompts) = input.prompt
        /\ (input.prompt = <<>> => output.prompts = <<>>)

\* a prompt with text, a video URL and another URL has been cut into fragments
C38_Witness ==
    /\ CutIntoFragments
    /\ Len(input.prompt) = MaxTokens
    /\ \E i \in DOMAIN output.prompts : output.prompts[i].kind = "uri"
    /\ \E i \in DOMAIN input.prompt :
          input.prompt[i].k = "url" /\ ~isURLFromYoutube(input.prompt[i].s)
    /\ \E i \in DOMAIN input.prompt : input.prompt[i].k # "url"

====
